---- MODULE Spec2Model ----
(***************************************************************************)
(* Deferred value storage, freeze and lookup of buck2's analysis registry. *)
(*                                                                         *)
(* Modelled from app/buck2_build_api/src/analysis/registry.rs,             *)
(* app/buck2_build_api/src/deferred/calculation.rs and                     *)
(* app/buck2_artifact/src/deferred/key.rs.                                 *)
(*                                                                         *)
(* A SmallMap is an insertion-ordered map: it is modelled as a sequence of *)
(* [k, v] records with distinct keys, in insertion order.                  *)
(***************************************************************************)
EXTENDS Integers, Sequences, FiniteSets, TLC

\* ------------------------------------------------------------------ bounds

\* Total number of entries the storages and snapshots of one run may hold.
MaxEntries == 2

\* The starlark Modules the evaluations may be finalized into, named in the
\* order they are first committed to.
ModuleSeq == <<"m1", "m2">>
Modules == {ModuleSeq[i] : i \in DOMAIN ModuleSeq}

\* ------------------------------------------------------------------ values

\* Option<T>: None, or Some(x).
None == [some |-> FALSE]
Some(x) == [some |-> TRUE, v |-> x]

\* BaseDeferredKey: a target label, a bxl label or an anonymous target.
\* The registries of the model are those of the analysis of a target.
TargetLabels == {"b1"}
BxlLabels == {"x1"}
AnonTargets == {"n1"}
AllBaseKeys == TargetLabels \cup BxlLabels \cup AnonTargets
BaseKind(b) ==
    IF b \in TargetLabels THEN "TargetLabel"
    ELSE IF b \in BxlLabels THEN "BxlLabel"
    ELSE "AnonTarget"
BaseKeys == TargetLabels

Base(b) == [kind |-> "Base", base |-> b]
\* DeferredHolderKey::DynamicLambda(Arc<DynamicLambdaResultsKey>): the lambda
\* key pairs its owning holder key with a local discriminator.
DynamicLambda(o, a) == [kind |-> "DynamicLambda", owner |-> o, action |-> a]

\* The holder keys of the model: a base key and a lambda it owns.
HolderKeys == {Base(b) : b \in BaseKeys} \cup {DynamicLambda(Base("b1"), "d1")}

RECURSIVE owner(_), DynamicLambdaResultsKey_owner(_)
\* DynamicLambdaResultsKey::owner: the owner of the holder key it is under.
DynamicLambdaResultsKey_owner(lambda) == owner(lambda.owner)

\* owner() answering a lambda of a lambda with a local discriminator.
owner_nearest(key) ==
    IF key.kind = "Base" THEN key.base
    ELSE IF key.owner.kind = "Base" THEN key.owner.base
    ELSE key.owner.action

\* DeferredHolderKey::owner
owner(key) ==
    IF key.kind = "Base" THEN key.base ELSE DynamicLambdaResultsKey_owner(key)

\* A String is modelled as the sequence of its parts; String::new() is the
\* empty one.
String_new == <<>>
\* DynamicLambdaResultsKey::action_key: the key's local discriminator.
DynamicLambdaResultsKey_action_key(lambda) == <<lambda.action>>

\* action_key() naming the base key.
action_key_of_base(key) ==
    IF key.kind = "Base"
        THEN <<key.base>>
        ELSE DynamicLambdaResultsKey_action_key(key)

\* DeferredHolderKey::action_key
action_key(key) ==
    IF key.kind = "Base"
        THEN String_new
        ELSE DynamicLambdaResultsKey_action_key(key)

\* A DeferredHolderKey in memory: the key, and for a lambda key the
\* address of the Arc that holds its DynamicLambdaResultsKey.
NoArc == "-"
KeyValue(key, arc) == [key |-> key, arc |-> arc]

RECURSIVE DeferredHolderKey_eq(_, _)
\* PartialEq of DynamicLambdaResultsKey: owners and discriminators.
DynamicLambdaResultsKey_eq(a, b) ==
    DeferredHolderKey_eq(a.owner, b.owner) /\ a.action = b.action
\* The derived PartialEq of DeferredHolderKey, on the keys: the same
\* variant, and equal fields.
DeferredHolderKey_eq(a, b) ==
    IF a.kind # b.kind THEN FALSE
    ELSE IF a.kind = "Base" THEN a.base = b.base
    ELSE DynamicLambdaResultsKey_eq(a, b)

\* Equality of two lambda keys by the Arc they hold.
PartialEq_eq_ptr(x, y) ==
    IF x.key.kind # y.key.kind THEN FALSE
    ELSE IF x.key.kind = "Base" THEN x.key.base = y.key.base
    ELSE x.arc = y.arc

\* PartialEq::eq of two DeferredHolderKey values: Arc<T> compares what
\* the Arcs hold.
PartialEq_eq(x, y) == DeferredHolderKey_eq(x.key, y.key)

\* The evaluations of one run. The engine evaluates a holder key at most
\* once, so there is one per holder key: KeyOf is the key it evaluates.
Registries == {"r1", "r2"}
KeyOf(r) == IF r = "r1" THEN Base("b1") ELSE DynamicLambda(Base("b1"), "d1")

\* ActionKey: opaque, issued by the (external) ActionsRegistry.
ActionKeys == {"a1", "a2"}
\* DynamicLambdaResultsKey issued under holder h.
LambdaKeys(h) == {[owner |-> h, action |-> "d1"]}

\* Opaque starlark values. The ones in Unfreezable fail to freeze.
AssocValues == {"v1", "vX"}
ErrorHandlers == {"e1"}
SetPayloads == {"A", "B", "sX"}
LambdaParams == {"p1", "pX"}
Unfreezable == {"vX", "sX", "pX"}

\* Result<T>: Ok(v), or an error of a class (internal, user, freeze,
\* external) with its message; ErrAbout also names what the message quotes.
Ok(v) == [ok |-> TRUE, val |-> v]
Err(tag, msg) == [ok |-> FALSE, tag |-> tag, msg |-> msg]
ErrAbout(tag, msg, x) == [ok |-> FALSE, tag |-> tag, msg |-> msg, about |-> x]

\* ------------------------------------------------------------------ SmallMap

Keys(m) == {m[i].k : i \in DOMAIN m}
HasKey(m, k) == \E i \in DOMAIN m : m[i].k = k
IndexOf(m, k) == CHOOSE i \in DOMAIN m : m[i].k = k
\* SmallMap::get: Some(v) or None.
Get(m, k) == IF HasKey(m, k) THEN Some(m[IndexOf(m, k)].v) ELSE None
\* SmallMap::insert: an existing key keeps its position and takes the new value.
Insert(m, k, v) ==
    IF HasKey(m, k)
        THEN [m EXCEPT ![IndexOf(m, k)] = [k |-> k, v |-> v]]
        ELSE Append(m, [k |-> k, v |-> v])

\* ------------------------------------------------------------------ state

VARIABLES
    self_key,   \* AnalysisRegistry.self_key of each registry (None: not constructed)
    phase,      \* where each registry is in its life
    storage,    \* the AnalysisValueStorage each registry was constructed with
    slot,       \* each Module's extra value analysis_value_storage (OnceCell)
    frozen,     \* each Module once env.freeze() ran: its FrozenModule, or Dropped
    recorded,   \* the RecordedAnalysisValues each evaluation produced
    ret,        \* the last call and the value it returned
    late,       \* the late bindings that have been initialised
    stack,      \* the calls of lookup_deferred_holder in progress, innermost last
    log,        \* what the resolution in progress (or the last one) did, in order
    served,     \* the keys of the resolutions that have returned, in order
    out,        \* what the last resolution returned
    args,       \* the values the key and fetcher functions are applied to
    artifacts,  \* the artifacts the ActionsRegistry of each registry has declared
    once,       \* the state of the Once of init_late_bindings
    pc,         \* where each thread is in its call of init_late_bindings
    inits       \* how many times the validation implementation was initialised

\* The state of the registries, modules and snapshots; of resolution; and
\* of output declaration and late-binding initialisation.
rvars == <<self_key, phase, storage, slot, frozen, recorded>>
dvars == <<late, stack, log, served, out>>
xvars == <<artifacts, once, pc, inits>>
vars == <<self_key, phase, storage, slot, frozen, recorded, ret,
          late, stack, log, served, out, args, artifacts, once, pc, inits>>

\* The threads that call init_late_bindings.
Threads == {"t1", "t2", "t3"}

\* Nothing declared, and init_late_bindings not yet called.
InitRest ==
    /\ artifacts = [r \in Registries |-> {}]
    /\ once = "incomplete"
    /\ pc = [t \in Threads |-> "idle"]
    /\ inits = 0

\* Number of entries of a (mutable or frozen) value storage.
Size(st) == Len(st.action_data) + Len(st.transitive_sets) + Len(st.lambda_params)

\* Entries held on behalf of registry r: in its storage, or in its snapshot.
Entries(r) ==
    Size(storage[r])
    + (IF recorded[r].some /\ recorded[r].v.analysis_storage.some
          THEN Size(recorded[r].v.analysis_storage.v) ELSE 0)

RECURSIVE Sum(_, _)
Sum(f(_), S) ==
    IF S = {} THEN 0
    ELSE LET x == CHOOSE y \in S : TRUE IN f(x) + Sum(f, S \ {x})

\* There is room for one more entry.
Room == Sum(Entries, Registries) < MaxEntries
\* There is room for an entry of map m under key k: it replaces one, or adds one.
RoomFor(m, k) == Room \/ (k.ok /\ HasKey(m, k.val))

\* m has been committed to, or is the next module to be.
NextModule(m) ==
    \A i, j \in DOMAIN ModuleSeq :
        (i < j /\ ModuleSeq[j] = m) => slot[ModuleSeq[i]].some

\* AnalysisValueStorage::new
AnalysisValueStorage_new ==
    [action_data |-> <<>>, transitive_sets |-> <<>>, lambda_params |-> <<>>]

Init ==
    /\ self_key = [r \in Registries |-> None]
    /\ phase = [r \in Registries |-> "none"]
    /\ storage = [r \in Registries |-> AnalysisValueStorage_new]
    /\ slot = [m \in Modules |-> None]
    /\ frozen = [m \in Modules |-> None]
    /\ recorded = [r \in Registries |-> None]
    /\ ret = [op |-> "init"]
    /\ late = {}
    /\ stack = <<>>
    /\ log = <<>>
    /\ served = <<>>
    /\ out = None
    /\ InitRest
    /\ args = <<Base("b1"), Base("b1")>>

\* ------------------------------------------------------------------ construction

\* new_from_owner_and_deferred keying the registry by its owner, whatever
\* self_key it is given.
new_from_owner_and_deferred_by_owner(r, own, key, bound) ==
    /\ phase[r] = "none"
    /\ IF bound
          THEN /\ self_key' = [self_key EXCEPT ![r] = Base(own)]
               /\ phase' = [phase EXCEPT ![r] = "open"]
               /\ storage' = [storage EXCEPT ![r] = AnalysisValueStorage_new]
               /\ ret' = [op |-> "new", res |-> Ok(Base(own))]
          ELSE /\ UNCHANGED <<self_key, phase, storage>>
               /\ ret' = [op |-> "new", res |-> Err("internal", "late binding not set")]
    /\ UNCHANGED <<slot, frozen, recorded>>

\* AnalysisRegistry::new_from_owner_and_deferred. `bound` is whether the
\* late-bound sub-registry factories are initialised.
new_from_owner_and_deferred(r, own, key, bound) ==
    /\ phase[r] = "none"
    /\ IF bound
          THEN /\ self_key' = [self_key EXCEPT ![r] = key]
               /\ phase' = [phase EXCEPT ![r] = "open"]
               /\ storage' = [storage EXCEPT ![r] = AnalysisValueStorage_new]
               /\ ret' = [op |-> "new", res |-> Ok(key)]
          ELSE /\ UNCHANGED <<self_key, phase, storage>>
               /\ ret' = [op |-> "new", res |-> Err("internal", "late binding not set")]
    /\ UNCHANGED <<slot, frozen, recorded>>

\* AnalysisRegistry::new_from_owner
new_from_owner(r, own, bound) ==
    new_from_owner_and_deferred(r, own, Base(own), bound)

\* The evaluation of a base key builds its registry from the owner alone.
NewFromOwner ==
    \E r \in Registries, bound \in BOOLEAN :
        /\ KeyOf(r).kind = "Base"
        /\ new_from_owner(r, owner(KeyOf(r)), bound)
        /\ UNCHANGED <<dvars, args, xvars>>

\* The evaluation of a dynamic lambda passes the lambda's key as self_key.
NewFromOwnerAndDeferred ==
    \E r \in Registries, bound \in BOOLEAN :
        /\ KeyOf(r).kind = "DynamicLambda"
        /\ new_from_owner_and_deferred(r, owner(KeyOf(r)), KeyOf(r), bound)
        /\ UNCHANGED <<dvars, args, xvars>>

\* ------------------------------------------------------------------ accumulation

\* set_action_data keeping the entry a key already has.
set_action_data_keep_first(r, id, action_data) ==
    storage' = [storage EXCEPT
                   ![r].action_data = IF HasKey(@, id) THEN @
                                      ELSE Insert(@, id, action_data)]

\* AnalysisValueStorage::set_action_data
set_action_data(r, id, action_data) ==
    storage' = [storage EXCEPT ![r].action_data = Insert(@, id, action_data)]

\* set_lambda_params taking its place in the index space of the transitive
\* sets: the lambda uses up the index the next set would have been issued.
set_lambda_params_counted(r, key, lambda_params) ==
    storage' = [storage EXCEPT
                   ![r].lambda_params = Insert(@, key, lambda_params),
                   ![r].transitive_sets =
                       Append(@, [k |-> [holder |-> self_key[r], index |-> Len(@)],
                                  v |-> [payload |-> "A",
                                         key |-> [holder |-> self_key[r],
                                                  index |-> Len(@)]]])]

\* AnalysisValueStorage::set_lambda_params
set_lambda_params(r, key, lambda_params) ==
    storage' = [storage EXCEPT ![r].lambda_params = Insert(@, key, lambda_params)]

\* TransitiveSetKey::new(self_key, TransitiveSetIndex(len)). The conversion of
\* the length to u32 cannot fail for the lengths the model reaches.
TransitiveSetKey_new(holder, index) == [holder |-> holder, index |-> index]

\* The constructor closure passed to register_transitive_set: it fails, or
\* builds a set that embeds the key it was given.
FuncFails == "FuncFails"
func(p, key) ==
    IF p = FuncFails
        THEN Err("user", "transitive set construction failed")
        ELSE Ok([payload |-> p, key |-> key])

\* register_transitive_set issuing the index of the last set again instead of
\* the next one: the new set replaces the entry the last one was stored under.
register_transitive_set_reuse(r, holder, p) ==
    LET n == Len(storage[r].transitive_sets)
        key == TransitiveSetKey_new(holder, IF n = 0 THEN 0 ELSE n - 1)
        set == func(p, key)
    IN  IF set.ok
            THEN /\ storage' = [storage EXCEPT
                                   ![r].transitive_sets = Insert(@, key, set.val)]
                 /\ ret' = [op |-> "register_transitive_set", res |-> set,
                            offered |-> key]
            ELSE /\ UNCHANGED storage
                 /\ ret' = [op |-> "register_transitive_set", res |-> set,
                            offered |-> key]

\* register_transitive_set reserving the entry before the constructor runs:
\* when the constructor fails the reserved entry stays behind.
register_transitive_set_reserve(r, holder, p) ==
    LET key == TransitiveSetKey_new(holder, Len(storage[r].transitive_sets))
        set == func(p, key)
    IN  /\ storage' = [storage EXCEPT
                          ![r].transitive_sets =
                              Insert(@, key, IF set.ok THEN set.val
                                             ELSE [payload |-> "A", key |-> key])]
        /\ ret' = [op |-> "register_transitive_set", res |-> set, offered |-> key]

\* AnalysisValueStorage::register_transitive_set. `offered` notes the key
\* the constructor was called with.
register_transitive_set(r, holder, p) ==
    LET key == TransitiveSetKey_new(holder, Len(storage[r].transitive_sets))
        set == func(p, key)
    IN  IF set.ok
            THEN /\ storage' = [storage EXCEPT
                                   ![r].transitive_sets = Insert(@, key, set.val)]
                 /\ ret' = [op |-> "register_transitive_set", res |-> set,
                            offered |-> key]
            ELSE /\ UNCHANGED storage
                 /\ ret' = [op |-> "register_transitive_set", res |-> set,
                            offered |-> key]

\* register_action storing the action data before it asks the action
\* registry for the key.
register_action_eager(r, id, associated_value, error_handler) ==
    /\ phase[r] = "open"
    /\ RoomFor(storage[r].action_data, id)
    /\ IF ~id.ok
          THEN /\ storage[r].action_data # <<>>
               /\ set_action_data(r, storage[r].action_data[1].k,
                                  <<None, None>>)
               /\ ret' = [op |-> "register_action", res |-> id]
          ELSE /\ set_action_data(r, id.val, <<associated_value, error_handler>>)
               /\ ret' = [op |-> "register_action", res |-> Ok("unit"),
                          replaced |-> HasKey(storage[r].action_data, id.val)]
    /\ UNCHANGED <<self_key, phase, slot, frozen, recorded>>

\* AnalysisRegistry::register_action. `id` is the result of
\* ActionsRegistry::register: Ok(ActionKey), or its error. `replaced` notes
\* what SmallMap::insert answered (whether the key already had an entry),
\* which set_action_data discards.
register_action(r, id, associated_value, error_handler) ==
    /\ phase[r] = "open"
    /\ RoomFor(storage[r].action_data, id)
    /\ IF ~id.ok
          THEN /\ UNCHANGED storage
               /\ ret' = [op |-> "register_action", res |-> id]
          ELSE /\ set_action_data(r, id.val, <<associated_value, error_handler>>)
               /\ ret' = [op |-> "register_action", res |-> Ok("unit"),
                          replaced |-> HasKey(storage[r].action_data, id.val)]
    /\ UNCHANGED <<self_key, phase, slot, frozen, recorded>>

\* create_transitive_set registering under the owner's base key instead of
\* self_key.
create_transitive_set_owner(r, p) ==
    /\ phase[r] = "open"
    /\ Room
    /\ register_transitive_set(r, Base(owner(self_key[r])), p)
    /\ UNCHANGED <<self_key, phase, slot, frozen, recorded>>

\* AnalysisRegistry::create_transitive_set: the artifact-group registry is
\* handed self_key and the storage, and registers the set under that key.
create_transitive_set(r, p) ==
    /\ phase[r] = "open"
    /\ Room
    /\ register_transitive_set(r, self_key[r], p)
    /\ UNCHANGED <<self_key, phase, slot, frozen, recorded>>

\* AnalysisRegistry::register_dynamic_output: the dynamic registry is handed
\* self_key and the storage; when it accepts the lambda it stores its
\* parameters under the key it issues. `key` is Ok(that key), or its error.
register_dynamic_output(r, key, lambda_params) ==
    /\ phase[r] = "open"
    /\ RoomFor(storage[r].lambda_params, key)
    /\ IF ~key.ok
          THEN /\ UNCHANGED storage
               /\ ret' = [op |-> "register_dynamic_output", res |-> key]
          ELSE /\ set_lambda_params(r, key.val, lambda_params)
               /\ ret' = [op |-> "register_dynamic_output", res |-> Ok("unit")]
    /\ UNCHANGED <<self_key, phase, slot, frozen, recorded>>

\* What the external sub-registries answer when they reject a registration.
RegistryRejects == Err("user", "registration rejected")

RegisterAction ==
    \E r \in Registries,
       id \in {Ok(a) : a \in ActionKeys} \cup {RegistryRejects},
       v \in {Some(x) : x \in AssocValues} \cup {None},
       e \in {Some(x) : x \in ErrorHandlers} \cup {None} :
        register_action(r, id, v, e) /\ UNCHANGED <<dvars, args, xvars>>

CreateTransitiveSet ==
    \E r \in Registries, p \in SetPayloads \cup {FuncFails} :
        create_transitive_set(r, p) /\ UNCHANGED <<dvars, args, xvars>>

RegisterDynamicOutput ==
    \E r \in Registries, lp \in LambdaParams :
        \E key \in {Ok(k) : k \in LambdaKeys(self_key[r])} \cup {RegistryRejects} :
            register_dynamic_output(r, key, lp) /\ UNCHANGED <<dvars, args, xvars>>

\* ------------------------------------------------------------------ declaration

\* The filenames and prefixes declare_output is called with.
Filenames == {"", ".", "out", "lib", "a/../b"}
Prefixes == {None, Some("gen"), Some("."), Some("../gen")}

\* DeclaredArtifactError::DeclaredEmptyFileName
DeclaredEmptyFileName ==
    Err("user", "Can't declare an artifact with an empty filename component")

\* The paths ForwardRelativePath::new refuses: those with `..`, and `.`.
NotForwardRelative == {".", "a/../b", "../gen"}

\* ForwardRelativePath::new
ForwardRelativePath_new(x) ==
    IF x \in NotForwardRelative
        THEN ErrAbout("user", "not a forward relative path", x)
        ELSE Ok(x)

\* ActionsRegistry::declare_artifact: the artifact is declared unless one
\* was declared at the same place before.
declare_artifact(r, prefix, path) ==
    LET artifact == [prefix |-> prefix, path |-> path]
    IN  IF artifact \in artifacts[r]
            THEN /\ UNCHANGED artifacts
                 /\ ret' = [op |-> "declare_output", asked |-> TRUE,
                            res |-> ErrAbout("user", "output path collision", artifact)]
            ELSE /\ artifacts' = [artifacts EXCEPT ![r] = @ \cup {artifact}]
                 /\ ret' = [op |-> "declare_output", asked |-> TRUE,
                            res |-> Ok(artifact)]

\* declare_output without the check of the filename: the filename goes to
\* ForwardRelativePath::new as it is.
declare_output_unchecked(r, prefix, filename) ==
    /\ phase[r] = "open"
    /\ LET path == ForwardRelativePath_new(filename)
           pre == IF prefix.some THEN ForwardRelativePath_new(prefix.v) ELSE Ok(None)
       IN  IF ~path.ok
               THEN /\ UNCHANGED artifacts
                    /\ ret' = [op |-> "declare_output", asked |-> FALSE, res |-> path]
           ELSE IF ~pre.ok
               THEN /\ UNCHANGED artifacts
                    /\ ret' = [op |-> "declare_output", asked |-> FALSE, res |-> pre]
           ELSE declare_artifact(r, prefix, path.val)
    /\ UNCHANGED <<rvars, dvars, args, once, pc, inits>>

\* AnalysisRegistry::declare_output. `asked` notes whether the action
\* registry was called.
declare_output(r, prefix, filename) ==
    /\ phase[r] = "open"
    /\ IF filename = "." \/ filename = ""
          THEN /\ UNCHANGED artifacts
               /\ ret' = [op |-> "declare_output", asked |-> FALSE,
                          res |-> DeclaredEmptyFileName]
          ELSE LET path == ForwardRelativePath_new(filename)
                   pre == IF prefix.some
                              THEN ForwardRelativePath_new(prefix.v) ELSE Ok(None)
               IN  IF ~path.ok
                       THEN /\ UNCHANGED artifacts
                            /\ ret' = [op |-> "declare_output", asked |-> FALSE,
                                       res |-> path]
                   ELSE IF ~pre.ok
                       THEN /\ UNCHANGED artifacts
                            /\ ret' = [op |-> "declare_output", asked |-> FALSE,
                                       res |-> pre]
                   ELSE declare_artifact(r, prefix, path.val)
    /\ UNCHANGED <<rvars, dvars, args, once, pc, inits>>

DeclareOutput ==
    \E r \in Registries, prefix \in Prefixes, filename \in Filenames :
        declare_output(r, prefix, filename)

\* ------------------------------------------------------------------ freeze

\* Value::freeze: the frozen form of a value, or the failure to convert it.
freeze_value(v) ==
    IF v \in Unfreezable
        THEN ErrAbout("freeze", "value cannot be frozen", [value |-> v])
        ELSE Ok([frozen |-> v])

\* Option<T>::freeze
freeze_option(o) ==
    IF ~o.some
        THEN Ok(None)
        ELSE LET f == freeze_value(o.v)
             IN  IF f.ok THEN Ok(Some(f.val)) ELSE f

\* freeze_action_data losing the error handler.
freeze_action_data_no_handler(d) ==
    LET a == freeze_option(d[1])
    IN  IF ~a.ok THEN a ELSE Ok(<<a.val, None>>)

\* (Option<Value>, Option<StarlarkCallable>)::freeze: the value, then the handler.
freeze_action_data(d) ==
    LET a == freeze_option(d[1])
        b == freeze_option(d[2])
    IN  IF ~a.ok THEN a
        ELSE IF ~b.ok THEN b
        ELSE Ok(<<a.val, b.val>>)

\* v.to_value().freeze(freezer)? of a transitive set: it freezes when its
\* payload does, and keeps the key it embeds.
freeze_transitive_set(set) ==
    IF set.payload \in Unfreezable
        THEN ErrAbout("freeze", "value cannot be frozen", set)
        ELSE Ok([frozen |-> set])

freeze_entry(field, v) ==
    CASE field = "action_data" -> freeze_action_data(v)
      [] field = "transitive_sets" -> freeze_transitive_set(v)
      [] field = "lambda_params" -> freeze_value(v)

\* into_iter().map(|(k, v)| Ok((k, v.freeze()?))).collect::<Result<_>>():
\* entries in insertion order, stopping at the first failure.
RECURSIVE collect(_, _)
collect(field, m) ==
    IF m = <<>>
        THEN Ok(<<>>)
        ELSE LET h == freeze_entry(field, Head(m).v)
             IN  IF ~h.ok
                     THEN h
                     ELSE LET t == collect(field, Tail(m))
                          IN  IF ~t.ok
                                  THEN t
                                  ELSE Ok(<<[k |-> Head(m).k, v |-> h.val]>> \o t.val)

\* freeze converting the transitive sets before the action data.
freeze_sets_first(st) ==
    LET ad == collect("action_data", st.action_data)
        ts == collect("transitive_sets", st.transitive_sets)
        lp == collect("lambda_params", st.lambda_params)
    IN  IF ~ts.ok THEN ts
        ELSE IF ~ad.ok THEN ad
        ELSE IF ~lp.ok THEN lp
        ELSE Ok([action_data |-> ad.val,
                 transitive_sets |-> ts.val,
                 lambda_params |-> lp.val])

\* impl Freeze for AnalysisValueStorage
freeze(st) ==
    LET ad == collect("action_data", st.action_data)
        ts == collect("transitive_sets", st.transitive_sets)
        lp == collect("lambda_params", st.lambda_params)
    IN  IF ~ad.ok THEN ad
        ELSE IF ~ts.ok THEN ts
        ELSE IF ~lp.ok THEN lp
        ELSE Ok([action_data |-> ad.val,
                 transitive_sets |-> ts.val,
                 lambda_params |-> lp.val])

\* ------------------------------------------------------------------ fetcher

\* A Module consumed by env.freeze() that left no FrozenModule behind.
Dropped == [some |-> FALSE, dropped |-> TRUE]

\* A FrozenModule: its extra value's analysis_value_storage.
FrozenModule(st) == [analysis_value_storage |-> st]

\* AnalysisValueFetcher { frozen_module }
AnalysisValueFetcher(fm) == [frozen_module |-> fm]
\* AnalysisValueFetcher::default
AnalysisValueFetcher_default == AnalysisValueFetcher(None)

NotSet == Err("internal", "analysis_value_storage not set")

\* extra_value answering a frozen module without a storage as it answers no
\* frozen module.
extra_value_lenient(f) ==
    IF ~f.frozen_module.some
        THEN Ok(None)
        ELSE LET st == f.frozen_module.v.analysis_value_storage
             IN  IF st.some THEN Ok(Some(st.v)) ELSE Ok(None)

\* AnalysisValueFetcher::extra_value
extra_value(f) ==
    IF ~f.frozen_module.some
        THEN Ok(None)
        ELSE LET st == f.frozen_module.v.analysis_value_storage
             IN  IF st.some THEN Ok(Some(st.v)) ELSE NotSet

\* get_action_data treating a key the frozen storage lacks as an error.
get_action_data_strict(f, id) ==
    LET e == extra_value(f)
    IN  IF ~e.ok THEN e
        ELSE IF ~e.val.some THEN Ok(<<None, None>>)
        ELSE LET value == Get(e.val.v.action_data, id)
             IN  IF ~value.some
                     THEN ErrAbout("internal", "missing action data", id)
                     ELSE Ok(value.v)

\* AnalysisValueFetcher::get_action_data
get_action_data(f, id) ==
    LET e == extra_value(f)
    IN  IF ~e.ok THEN e
        ELSE IF ~e.val.some THEN Ok(<<None, None>>)
        ELSE LET value == Get(e.val.v.action_data, id)
             IN  IF ~value.some THEN Ok(<<None, None>>) ELSE Ok(value.v)

\* AnalysisValueFetcher::get_lambda_params
get_lambda_params(f, key) ==
    LET e == extra_value(f)
    IN  IF ~e.ok THEN e
        ELSE IF ~e.val.some THEN Ok(None)
        ELSE LET value == Get(e.val.v.lambda_params, key)
             IN  IF ~value.some THEN Ok(None) ELSE Ok(Some(value.v))

\* AnalysisValueFetcher::get_recorded_values
get_recorded_values(f, actions, dynamic_lambdas) ==
    LET analysis_storage ==
            IF ~f.frozen_module.some
                THEN Ok(None)
                ELSE LET st == f.frozen_module.v.analysis_value_storage
                     IN  IF st.some THEN Ok(Some(st.v)) ELSE NotSet
    IN  IF ~analysis_storage.ok
            THEN analysis_storage
            ELSE Ok([analysis_storage |-> analysis_storage.val,
                     actions |-> actions,
                     dynamic_lambdas |-> dynamic_lambdas])

\* ------------------------------------------------------------------ finalize

AlreadySet == Err("internal", "analysis_value_storage is already set")

\* write_to_module replacing the storage a set slot holds.
write_to_module_overwrite(r, m) ==
    /\ slot' = [slot EXCEPT ![m] = Some(r)]
    /\ ret' = [op |-> "finalize", mod |-> m, res |-> Ok("closure")]

\* AnalysisValueStorage::write_to_module: the OnceCell takes the storage, or
\* refuses it when it already holds one.
write_to_module(r, m) ==
    IF slot[m].some
        THEN /\ UNCHANGED slot
             /\ ret' = [op |-> "finalize", mod |-> m, res |-> AlreadySet]
        ELSE /\ slot' = [slot EXCEPT ![m] = Some(r)]
             /\ ret' = [op |-> "finalize", mod |-> m, res |-> Ok("closure")]

\* finalize borrowing the registry instead of consuming it: the registry
\* stays usable after its storage has been committed.
finalize_borrow(r, m) ==
    /\ phase[r] = "open"
    /\ frozen[m] = None
    /\ NextModule(m)
    /\ write_to_module(r, m)
    /\ UNCHANGED <<self_key, phase, storage, frozen, recorded>>

\* AnalysisRegistry::finalize(self, env), up to the closure it returns.
\* The registry is consumed whether or not the commit succeeds.
finalize(r, m) ==
    /\ phase[r] = "open"
    /\ frozen[m] = None
    /\ NextModule(m)
    /\ write_to_module(r, m)
    /\ phase' = [phase EXCEPT ![r] = IF slot[m].some THEN "consumed" ELSE "committed"]
    /\ storage' = [storage EXCEPT
                      ![r] = IF slot[m].some THEN AnalysisValueStorage_new ELSE @]
    /\ UNCHANGED <<self_key, frozen, recorded>>

\* What the closure's steps outside the storage may answer: everything
\* succeeds, or the first of them that fails.
Steps == {"ok", "env.freeze", "actions.ensure_bound",
          "artifact_groups.ensure_bound", "dynamic.ensure_bound"}

\* ActionLookup: the registered action itself, or the key of a further
\* action to look up once a nested computation has resolved.
ActionLookup_Action(key) == [kind |-> "Action", key |-> key]
ActionLookup_Deferred(key) == [kind |-> "Deferred", key |-> key]

\* The action key a deferred entry for `key` points on to.
Further(key) == CHOOSE k \in ActionKeys : k # key

\* The tables the bound sub-registries hand to get_recorded_values: one
\* entry per registered action and per registered lambda. The actions in
\* `deferred` are recorded as Deferred, the others as the action itself.
RecordedActions(st, deferred) ==
    [i \in DOMAIN st.action_data |->
        [k |-> st.action_data[i].k,
         v |-> IF st.action_data[i].k \in deferred
                   THEN ActionLookup_Deferred(Further(st.action_data[i].k))
                   ELSE ActionLookup_Action(st.action_data[i].k)]]
DynamicLambdas(st) == [i \in DOMAIN st.lambda_params |->
                          [k |-> st.lambda_params[i].k, v |-> "DynamicLambda"]]

\* The steps of the closure finalize returns, in the order it runs them.
ClosureOrder == <<"env.freeze", "actions.ensure_bound",
                  "artifact_groups.ensure_bound", "dynamic.ensure_bound",
                  "get_recorded_values">>

\* The closure building the RecordedAnalysisValues before it binds the
\* dynamic lambdas.
closure_steps_records_first(step, frozen_ok) ==
    IF step = "env.freeze" \/ ~frozen_ok THEN <<"env.freeze">>
    ELSE IF step = "actions.ensure_bound" THEN SubSeq(ClosureOrder, 1, 2)
    ELSE IF step = "artifact_groups.ensure_bound" THEN SubSeq(ClosureOrder, 1, 3)
    ELSE IF step = "dynamic.ensure_bound"
        THEN SubSeq(ClosureOrder, 1, 3) \o <<"get_recorded_values", step>>
    ELSE ClosureOrder

\* The steps the closure runs when `step` is the first to fail outside the
\* storage and the storage freezes or not: each step ends in ?, so the
\* closure runs them up to the first that fails.
closure_steps(step, frozen_ok) ==
    IF step = "env.freeze" \/ ~frozen_ok
        THEN <<"env.freeze">>
        ELSE IF step = "ok"
            THEN ClosureOrder
            ELSE SubSeq(ClosureOrder, 1,
                        CHOOSE i \in DOMAIN ClosureOrder : ClosureOrder[i] = step)

\* The closure returned by finalize, called with the module finalize was
\* given. env.freeze() freezes the module and with it the storage committed
\* to it; `step` = "env.freeze" is the module failing to freeze on a value
\* of its own, before the storage's freeze returns.
finalize_closure(r, m, step, deferred) ==
    /\ phase[r] = "committed"
    /\ slot[m] = Some(r)
    /\ LET fs == freeze(storage[r])
           fetcher == AnalysisValueFetcher(Some(FrozenModule(Some(fs.val))))
           rv == get_recorded_values(fetcher, RecordedActions(storage[r], deferred),
                                     DynamicLambdas(storage[r]))
           res == IF step = "env.freeze" THEN Err("external", step)
                  ELSE IF ~fs.ok THEN fs
                  ELSE IF step # "ok" THEN Err("external", step)
                  ELSE IF ~rv.ok THEN rv
                  ELSE Ok("recorded")
       IN  /\ ret' = [op |-> "closure", res |-> res,
                      ran |-> closure_steps(step, fs.ok)]
           /\ IF res.ok
                 THEN /\ phase' = [phase EXCEPT ![r] = "done"]
                      /\ frozen' = [frozen EXCEPT ![m] = Some(FrozenModule(Some(fs.val)))]
                      /\ recorded' = [recorded EXCEPT ![r] = Some(rv.val)]
                 ELSE /\ phase' = [phase EXCEPT ![r] = "failed"]
                      /\ frozen' = [frozen EXCEPT ![m] = Dropped]
                      /\ UNCHANGED recorded
    /\ storage' = [storage EXCEPT ![r] = AnalysisValueStorage_new]
    /\ UNCHANGED <<self_key, slot>>

Finalize ==
    \E r \in Registries, m \in Modules :
        finalize(r, m) /\ UNCHANGED <<dvars, args, xvars>>

FinalizeClosure ==
    \E r \in Registries, m \in Modules, step \in Steps :
        \E deferred \in SUBSET Keys(storage[r].action_data) :
            finalize_closure(r, m, step, deferred) /\ UNCHANGED <<dvars, args, xvars>>

\* RecordedAnalysisValues::new_empty
new_empty ==
    [analysis_storage |-> None, actions |-> <<>>, dynamic_lambdas |-> <<>>]

\* An evaluation of holder `key` that registers nothing and answers with an
\* empty RecordedAnalysisValues.
NewEmpty ==
    \E r \in Registries :
        /\ phase[r] = "none"
        /\ self_key' = [self_key EXCEPT ![r] = KeyOf(r)]
        /\ phase' = [phase EXCEPT ![r] = "done"]
        /\ recorded' = [recorded EXCEPT ![r] = Some(new_empty)]
        /\ ret' = [op |-> "new_empty", res |-> Ok(KeyOf(r))]
        /\ UNCHANGED <<storage, slot, frozen, dvars, args, xvars>>

\* ------------------------------------------------------------------ lookup

\* lookup_transitive_set matching on the index alone, whatever holder the
\* key names.
RecordedAnalysisValues_lookup_transitive_set_by_index(values, key) ==
    IF values.analysis_storage.some
        THEN LET sets == values.analysis_storage.v.transitive_sets
             IN  IF \E i \in DOMAIN sets : sets[i].k.index = key.index
                     THEN Some(sets[CHOOSE i \in DOMAIN sets :
                                        sets[i].k.index = key.index].v)
                     ELSE None
        ELSE None

\* RecordedAnalysisValues::lookup_transitive_set
RecordedAnalysisValues_lookup_transitive_set(values, key) ==
    IF values.analysis_storage.some
        THEN Get(values.analysis_storage.v.transitive_sets, key)
        ELSE None

\* lookup_lambda answering a key the table lacks with an empty result
\* instead of an error.
RecordedAnalysisValues_lookup_lambda_or_default(values, key) ==
    LET l == Get(values.dynamic_lambdas, key)
    IN  IF l.some THEN Ok(l.v) ELSE Ok("DynamicLambda")

\* RecordedAnalysisValues::lookup_lambda
RecordedAnalysisValues_lookup_lambda(values, key) ==
    LET l == Get(values.dynamic_lambdas, key)
    IN  IF l.some THEN Ok(l.v) ELSE ErrAbout("internal", "missing lambda", key)

\* DeferredHolder: the result of evaluating a holder key, one variant per
\* kind of evaluation, each exposing its RecordedAnalysisValues.
DeferredHolder_Analysis(result) == [kind |-> "Analysis", result |-> result]
DeferredHolder_Bxl(result) == [kind |-> "Bxl", result |-> result]
DeferredHolder_DynamicLambda(result) == [kind |-> "DynamicLambda", result |-> result]

\* The DeferredHolder resolving `key` wraps the result `values` in.
DeferredHolder(key, values) ==
    IF key.kind = "DynamicLambda" THEN DeferredHolder_DynamicLambda(values)
    ELSE IF BaseKind(key.base) = "BxlLabel" THEN DeferredHolder_Bxl(values)
    ELSE DeferredHolder_Analysis(values)

\* DeferredHolder::analysis_values
analysis_values(holder) == holder.result

\* lookup_transitive_set answering a snapshot without frozen storage with
\* an error that names no key.
DeferredHolder_lookup_transitive_set_no_storage(holder, key) ==
    LET set == RecordedAnalysisValues_lookup_transitive_set(analysis_values(holder), key)
    IN  IF set.some
            THEN Ok(set.v)
            ELSE IF analysis_values(holder).analysis_storage.some
                THEN ErrAbout("internal", "Missing transitive set", key)
                ELSE NotSet

\* DeferredHolder::lookup_transitive_set
DeferredHolder_lookup_transitive_set(holder, key) ==
    LET set == RecordedAnalysisValues_lookup_transitive_set(analysis_values(holder), key)
    IN  IF set.some
            THEN Ok(set.v)
            ELSE ErrAbout("internal", "Missing transitive set", key)

\* RecordedActions::lookup: the entry recorded under the key.
RecordedActions_lookup(actions, key) ==
    LET a == Get(actions, key)
    IN  IF a.some THEN Ok(a.v) ELSE ErrAbout("internal", "missing action", key)

\* RecordedAnalysisValues::lookup_action
RecordedAnalysisValues_lookup_action(values, key) ==
    RecordedActions_lookup(values.actions, key)

\* lookup_action following a Deferred entry to the entry of the further key.
DeferredHolder_lookup_action_chasing(holder, key) ==
    LET a == RecordedAnalysisValues_lookup_action(analysis_values(holder), key)
    IN  IF a.ok /\ a.val.kind = "Deferred"
            THEN RecordedAnalysisValues_lookup_action(analysis_values(holder), a.val.key)
            ELSE a

\* DeferredHolder::lookup_action
DeferredHolder_lookup_action(holder, key) ==
    RecordedAnalysisValues_lookup_action(analysis_values(holder), key)

\* DeferredHolder::lookup_lambda
DeferredHolder_lookup_lambda(holder, key) ==
    RecordedAnalysisValues_lookup_lambda(analysis_values(holder), key)

\* The evaluations that have produced their result, and the DeferredHolder
\* resolving their key yields.
Resolved == {r \in Registries : recorded[r].some}
HolderOf(r) == DeferredHolder(self_key[r], recorded[r].v)

\* ------------------------------------------------------------------ readers

\* SmallMap::values: the values in insertion order.
Values(m) == [i \in DOMAIN m |-> m[i].v]

\* RecordedActions::iter_actions: the registered actions of the table.
RecordedActions_iter_actions(actions) ==
    SelectSeq(Values(actions), LAMBDA a : a.kind = "Action")

\* RecordedAnalysisValues::iter_actions
RecordedAnalysisValues_iter_actions(values) ==
    RecordedActions_iter_actions(values.actions)

\* RecordedAnalysisValues::iter_dynamic_lambdas
RecordedAnalysisValues_iter_dynamic_lambdas(values) ==
    Values(values.dynamic_lambdas)

\* The tasks that hold a resolved DeferredHolder and read it.
Readers == {"t1", "t2"}

\* A method of the snapshot that takes the entries it answers with out of
\* the snapshot.
SharedRef_taking(h, t, call, key, res) ==
    /\ recorded[h].some
    /\ ret' = [op |-> call, on |-> h, by |-> t, key |-> key, res |-> res]
    /\ recorded' = [recorded EXCEPT ![h] = Some(
                        [@.v EXCEPT !.dynamic_lambdas = <<>>, !.actions = <<>>])]
    /\ UNCHANGED <<self_key, phase, storage, slot, frozen, dvars, args, xvars>>

\* A method of RecordedAnalysisValues called as `call` by reader t on the
\* snapshot of h: every one of them takes &self, and answers from the
\* snapshot without writing to it.
SharedRef(h, t, call, key, res) ==
    /\ recorded[h].some
    /\ ret' = [op |-> call, on |-> h, by |-> t, key |-> key, res |-> res]
    /\ UNCHANGED <<rvars, dvars, args, xvars>>

LookupTransitiveSet ==
    \E h \in Registries, t \in Readers :
        \E key \in [holder : HolderKeys, index : 0..(MaxEntries - 1)] :
            SharedRef(h, t, "lookup_transitive_set", key,
                      RecordedAnalysisValues_lookup_transitive_set(recorded[h].v, key))

LookupAction ==
    \E h \in Registries, t \in Readers, key \in ActionKeys :
        SharedRef(h, t, "lookup_action", key,
                  RecordedAnalysisValues_lookup_action(recorded[h].v, key))

LookupLambda ==
    \E h \in Registries, t \in Readers :
        \E key \in UNION {LambdaKeys(k) : k \in HolderKeys} :
            SharedRef(h, t, "lookup_lambda", key,
                      RecordedAnalysisValues_lookup_lambda(recorded[h].v, key))

IterActions ==
    \E h \in Registries, t \in Readers :
        SharedRef(h, t, "iter_actions", None,
                  RecordedAnalysisValues_iter_actions(recorded[h].v))

IterDynamicLambdas ==
    \E h \in Registries, t \in Readers :
        SharedRef(h, t, "iter_dynamic_lambdas", None,
                  RecordedAnalysisValues_iter_dynamic_lambdas(recorded[h].v))

\* ------------------------------------------------------------------ resolution

\* Longest owner chain of a key that is resolved.
MaxDepth == 2
\* Number of resolutions requested in one run.
MaxResolves == 2

\* The holder keys whose chain of owners has n lambdas, with local
\* discriminators from D.
RECURSIVE KeysOfDepth(_, _)
KeysOfDepth(D, n) ==
    IF n = 0 THEN {Base(b) : b \in AllBaseKeys}
    ELSE {DynamicLambda(o, d) : o \in KeysOfDepth(D, n - 1), d \in D}

\* The keys resolved.
ResolveKeys == UNION {KeysOfDepth({"d1"}, n) : n \in 0..MaxDepth}

\* The late-bound evaluators, and LateBinding::get: the evaluator, or an
\* error when it has not been initialised.
LateBindings == {"BXL_CALCULATION_IMPL", "EVAL_ANON_TARGET"}
LateBinding_get(name) ==
    IF name \in late THEN Ok(name) ELSE Err("internal", name)

\* What an evaluator produced for a key: an AnalysisResult, a BxlResult or
\* a DynamicLambdaResult.
EvalResult(evaluator, key) == [by |-> evaluator, of |-> key]

\* A call of lookup_deferred_holder(key) that has not started.
Frame(key) == [key |-> key, pc |-> "start", res |-> None]
\* The innermost call in progress.
Top == stack[Len(stack)]

\* The innermost call returns `res`, after `events`: to the computation
\* that awaits it, or to the requester.
Return(res, events) ==
    /\ log' = log \o events \o <<[ev |-> "done", key |-> Top.key, res |-> res]>>
    /\ IF Len(stack) = 1
          THEN /\ stack' = <<>>
               /\ out' = Some(res)
               /\ served' = Append(served, Top.key)
          ELSE /\ stack' = [SubSeq(stack, 1, Len(stack) - 1) EXCEPT
                                ![Len(stack) - 1] =
                                    [@ EXCEPT !.pc = "resumed", !.res = Some(res)]]
               /\ UNCHANGED <<out, served>>

\* The innermost call calls `evaluator` for its key and awaits it.
Call(evaluator) ==
    /\ stack' = [stack EXCEPT ![Len(stack)].pc = "await"]
    /\ log' = Append(log, [ev |-> "call", key |-> Top.key, evaluator |-> evaluator])
    /\ UNCHANGED <<out, served>>

\* lookup_deferred_inner up to its await: the evaluator is chosen by the
\* kind of the base key; a late-bound one that is not initialised fails
\* the call before any evaluator is called.
lookup_deferred_inner(b) ==
    IF BaseKind(b) = "TargetLabel" THEN Call("get_analysis_result")
    ELSE IF BaseKind(b) = "BxlLabel"
        THEN IF LateBinding_get("BXL_CALCULATION_IMPL").ok
                 THEN Call("eval_bxl")
                 ELSE Return(LateBinding_get("BXL_CALCULATION_IMPL"), <<>>)
    ELSE IF LateBinding_get("EVAL_ANON_TARGET").ok
        THEN Call("EVAL_ANON_TARGET")
        ELSE Return(LateBinding_get("EVAL_ANON_TARGET"), <<>>)

\* lookup_deferred_holder awaiting the result for a lambda key without
\* calling the evaluator that would produce it.
lookup_deferred_holder_no_call(key) ==
    IF key.kind = "Base"
        THEN lookup_deferred_inner(key.base)
        ELSE /\ stack' = [stack EXCEPT ![Len(stack)].pc = "owner"]
             /\ UNCHANGED <<log, out, served>>

\* lookup_deferred_holder answering a key it has resolved before from a
\* cache of its own.
lookup_deferred_holder_cached(key) ==
    IF \E i \in DOMAIN served : served[i] = key
        THEN Return(Ok(DeferredHolder(key, EvalResult("cache", key))), <<>>)
    ELSE IF key.kind = "Base"
        THEN lookup_deferred_inner(key.base)
        ELSE Call("compute_dynamic_lambda")

\* lookup_deferred_holder up to its await.
lookup_deferred_holder(key) ==
    IF key.kind = "Base"
        THEN lookup_deferred_inner(key.base)
        ELSE Call("compute_dynamic_lambda")

\* What the evaluator of a base key may answer.
Answers(b) ==
    IF BaseKind(b) = "TargetLabel"
        THEN {"compatible", "incompatible", "error"}
        ELSE {"ok", "error"}

\* lookup_deferred_inner_returns accepting a result that is not compatible
\* with the execution platform.
lookup_deferred_inner_returns_any_platform(b, answer) ==
    IF answer = "error" THEN Err("external", "evaluator")
    ELSE IF BaseKind(b) = "TargetLabel"
        THEN Ok(DeferredHolder_Analysis(EvalResult("get_analysis_result", Base(b))))
    ELSE IF BaseKind(b) = "BxlLabel"
        THEN Ok(DeferredHolder_Bxl(EvalResult("eval_bxl", Base(b))))
    ELSE Ok(DeferredHolder_Analysis(EvalResult("EVAL_ANON_TARGET", Base(b))))

\* lookup_deferred_inner from its await on: the evaluator's error, the
\* error of require_compatible, or the holder wrapping the result.
lookup_deferred_inner_returns(b, answer) ==
    IF answer = "error" THEN Err("external", "evaluator")
    ELSE IF BaseKind(b) = "TargetLabel"
        THEN IF answer = "incompatible"
                 THEN Err("incompatible", "require_compatible")
                 ELSE Ok(DeferredHolder_Analysis(
                             EvalResult("get_analysis_result", Base(b))))
    ELSE IF BaseKind(b) = "BxlLabel"
        THEN Ok(DeferredHolder_Bxl(EvalResult("eval_bxl", Base(b))))
    ELSE Ok(DeferredHolder_Analysis(EvalResult("EVAL_ANON_TARGET", Base(b))))

\* compute_dynamic_lambda running the lambda without resolving its owner.
compute_dynamic_lambda_alone(key) ==
    /\ stack' = [stack EXCEPT ![Len(stack)].pc = "resumed",
                               ![Len(stack)].res = Some(Ok("none"))]
    /\ UNCHANGED <<log, out, served>>

\* compute_dynamic_lambda, first half: the evaluator of a lambda resolves
\* the lambda's owner, to look the lambda up in the owner's result.
compute_dynamic_lambda(key) ==
    /\ stack' = Append([stack EXCEPT ![Len(stack)].pc = "owner"], Frame(key.owner))
    /\ log' = Append(log, [ev |-> "resolve", key |-> key.owner])
    /\ UNCHANGED <<out, served>>

\* compute_dynamic_lambda, second half: the failure to resolve the owner,
\* the lambda's own failure, or its result.
compute_dynamic_lambda_returns(key, owner_holder, answer) ==
    IF ~owner_holder.ok THEN owner_holder
    ELSE IF answer = "error" THEN Err("external", "evaluator")
    ELSE Ok(EvalResult("compute_dynamic_lambda", key))

\* lookup_deferred_holder from its await on, for a lambda key.
lookup_deferred_holder_returns(result) ==
    IF result.ok THEN Ok(DeferredHolder_DynamicLambda(result.val)) ELSE result

\* A consumer asks for the holder of a key.
Resolve ==
    \E key \in ResolveKeys :
        /\ stack = <<>>
        /\ Len(served) < MaxResolves
        /\ stack' = <<Frame(key)>>
        /\ log' = <<[ev |-> "resolve", key |-> key]>>
        /\ out' = None
        /\ UNCHANGED <<late, served, rvars, ret, args, xvars>>

LookupDeferredHolder ==
    /\ stack # <<>>
    /\ Top.pc = "start"
    /\ lookup_deferred_holder(Top.key)
    /\ UNCHANGED <<late, rvars, ret, args, xvars>>

\* The evaluator of a base key answers.
EvaluatorReturns ==
    /\ stack # <<>>
    /\ Top.pc = "await"
    /\ Top.key.kind = "Base"
    /\ \E answer \in Answers(Top.key.base) :
          Return(lookup_deferred_inner_returns(Top.key.base, answer),
                 <<[ev |-> "answer", key |-> Top.key, answer |-> answer]>>)
    /\ UNCHANGED <<late, rvars, ret, args, xvars>>

ComputeDynamicLambda ==
    /\ stack # <<>>
    /\ Top.pc = "await"
    /\ Top.key.kind = "DynamicLambda"
    /\ compute_dynamic_lambda(Top.key)
    /\ UNCHANGED <<late, rvars, ret, args, xvars>>

\* The evaluator of a lambda key answers.
ComputeDynamicLambdaReturns ==
    /\ stack # <<>>
    /\ Top.pc = "resumed"
    /\ \E answer \in {"ok", "error"} :
          Return(lookup_deferred_holder_returns(
                     compute_dynamic_lambda_returns(Top.key, Top.res.v, answer)),
                 <<[ev |-> "answer", key |-> Top.key,
                    answer |-> IF Top.res.v.ok THEN answer ELSE "error"]>>)
    /\ UNCHANGED <<late, rvars, ret, args, xvars>>

InitResolve ==
    /\ self_key = [r \in Registries |-> None]
    /\ phase = [r \in Registries |-> "none"]
    /\ storage = [r \in Registries |-> AnalysisValueStorage_new]
    /\ slot = [m \in Modules |-> None]
    /\ frozen = [m \in Modules |-> None]
    /\ recorded = [r \in Registries |-> None]
    /\ ret = [op |-> "init"]
    /\ late \in SUBSET LateBindings
    /\ stack = <<>>
    /\ log = <<>>
    /\ served = <<>>
    /\ out = None
    /\ InitRest
    /\ args = <<Base("b1"), Base("b1")>>

NextResolve ==
    \/ Resolve
    \/ LookupDeferredHolder
    \/ EvaluatorReturns
    \/ ComputeDynamicLambda
    \/ ComputeDynamicLambdaReturns

SpecResolve == InitResolve /\ [][NextResolve]_vars

\* Every call in progress takes its next step, and every evaluator that
\* was called answers.
SpecResolveFair ==
    /\ SpecResolve
    /\ WF_vars(LookupDeferredHolder)
    /\ WF_vars(EvaluatorReturns)
    /\ WF_vars(ComputeDynamicLambda)
    /\ WF_vars(ComputeDynamicLambdaReturns)

\* ------------------------------------------------------------------ keys

\* The keys the key functions are applied to, and the values of them in
\* memory: a lambda key sits in one of two Arcs.
AllKeys == UNION {KeysOfDepth({"d1", "d2"}, n) : n \in 0..MaxDepth}
Arcs == {"p1", "p2"}
KeyValues ==
    {KeyValue(k, NoArc) : k \in {x \in AllKeys : x.kind = "Base"}}
    \cup {KeyValue(k, p) : k \in {x \in AllKeys : x.kind = "DynamicLambda"},
                           p \in Arcs}

\* Two values that share an Arc hold the same key.
InitKeys ==
    /\ self_key = [r \in Registries |-> None]
    /\ phase = [r \in Registries |-> "none"]
    /\ storage = [r \in Registries |-> AnalysisValueStorage_new]
    /\ slot = [m \in Modules |-> None]
    /\ frozen = [m \in Modules |-> None]
    /\ recorded = [r \in Registries |-> None]
    /\ ret = [op |-> "init"]
    /\ late = {}
    /\ stack = <<>>
    /\ log = <<>>
    /\ served = <<>>
    /\ out = None
    /\ InitRest
    /\ args \in {p \in KeyValues \X KeyValues :
                    (p[1].arc = p[2].arc /\ p[1].arc # NoArc) => p[1].key = p[2].key}

Owner ==
    /\ ret' = [op |-> "owner", res |-> owner(args[1].key)]
    /\ UNCHANGED <<rvars, dvars, args, xvars>>

ActionKey ==
    /\ ret' = [op |-> "action_key", res |-> action_key(args[1].key)]
    /\ UNCHANGED <<rvars, dvars, args, xvars>>

Eq ==
    /\ ret' = [op |-> "eq", res |-> PartialEq_eq(args[1], args[2])]
    /\ UNCHANGED <<rvars, dvars, args, xvars>>

NextKeys ==
    \/ Owner
    \/ ActionKey
    \/ Eq

SpecKeys == InitKeys /\ [][NextKeys]_vars

\* ------------------------------------------------------------------ fetchers

\* The frozen action data and lambda parameters a frozen storage may hold:
\* up to two actions, with a value and a handler or with neither, and up to
\* one lambda.
FrozenActionData ==
    {<<Some(freeze_value("v1").val), Some(freeze_value("e1").val)>>, <<None, None>>}
FrozenActionEntries == [k : ActionKeys, v : FrozenActionData]
FrozenActionMaps ==
    {<<>>} \cup {<<x>> : x \in FrozenActionEntries}
    \cup {p \in FrozenActionEntries \X FrozenActionEntries : p[1].k # p[2].k}
FrozenLambdaMaps ==
    {<<>>} \cup {<<[k |-> key, v |-> freeze_value("p1").val]>> :
                    key \in UNION {LambdaKeys(h) : h \in HolderKeys}}

\* The fetchers: the default one; one over a frozen module whose extra
\* value never had a storage committed to it; and one over a frozen module
\* for each frozen storage.
FetcherValues ==
    {AnalysisValueFetcher_default, AnalysisValueFetcher(Some(FrozenModule(None)))}
    \cup {AnalysisValueFetcher(Some(FrozenModule(Some(
              [action_data |-> ad, transitive_sets |-> <<>>, lambda_params |-> lp])))) :
             ad \in FrozenActionMaps, lp \in FrozenLambdaMaps}

InitFetch ==
    /\ self_key = [r \in Registries |-> None]
    /\ phase = [r \in Registries |-> "none"]
    /\ storage = [r \in Registries |-> AnalysisValueStorage_new]
    /\ slot = [m \in Modules |-> None]
    /\ frozen = [m \in Modules |-> None]
    /\ recorded = [r \in Registries |-> None]
    /\ ret = [op |-> "init"]
    /\ late = {}
    /\ stack = <<>>
    /\ log = <<>>
    /\ served = <<>>
    /\ out = None
    /\ InitRest
    /\ args \in {<<f>> : f \in FetcherValues}

GetActionData ==
    \E id \in ActionKeys :
        /\ ret' = [op |-> "get_action_data", key |-> id,
                   res |-> get_action_data(args[1], id)]
        /\ UNCHANGED <<rvars, dvars, args, xvars>>

GetLambdaParams ==
    \E key \in UNION {LambdaKeys(h) : h \in HolderKeys} :
        /\ ret' = [op |-> "get_lambda_params", key |-> key,
                   res |-> get_lambda_params(args[1], key)]
        /\ UNCHANGED <<rvars, dvars, args, xvars>>

GetRecordedValues ==
    /\ ret' = [op |-> "get_recorded_values", key |-> None,
               res |-> get_recorded_values(args[1], <<>>, <<>>)]
    /\ UNCHANGED <<rvars, dvars, args, xvars>>

NextFetch ==
    \/ GetActionData
    \/ GetLambdaParams
    \/ GetRecordedValues

SpecFetch == InitFetch /\ [][NextFetch]_vars

\* ------------------------------------------------------------------ late bindings

\* A thread calls init_late_bindings.
init_late_bindings(t) ==
    /\ pc[t] = "idle"
    /\ pc' = [pc EXCEPT ![t] = "call_once"]
    /\ UNCHANGED <<once, inits>>

\* call_once running the closure whenever the Once is not yet complete,
\* whether or not another thread is running it.
call_once_unsynchronised(t) ==
    /\ pc[t] = "call_once"
    /\ IF once = "complete"
          THEN /\ pc' = [pc EXCEPT ![t] = "returned"]
               /\ UNCHANGED once
          ELSE /\ pc' = [pc EXCEPT ![t] = "closure"]
               /\ once' = "running"
    /\ UNCHANGED inits

\* ONCE.call_once(closure), on entry: a complete Once returns at once; an
\* incomplete one is taken by this thread, which goes on to run the
\* closure; one that another thread is running makes this thread wait.
call_once(t) ==
    /\ pc[t] = "call_once"
    /\ IF once = "complete"
          THEN /\ pc' = [pc EXCEPT ![t] = "returned"]
               /\ UNCHANGED once
          ELSE IF once = "incomplete"
              THEN /\ pc' = [pc EXCEPT ![t] = "closure"]
                   /\ once' = "running"
              ELSE /\ pc' = [pc EXCEPT ![t] = "waiting"]
                   /\ UNCHANGED once
    /\ UNCHANGED inits

\* validation::init_validation_impl, run inside the closure.
init_validation_impl(t) ==
    /\ pc[t] = "closure"
    /\ inits' = inits + 1
    /\ pc' = [pc EXCEPT ![t] = "closure_done"]
    /\ UNCHANGED once

\* The closure has returned: the Once is complete and call_once returns.
call_once_completes(t) ==
    /\ pc[t] = "closure_done"
    /\ once' = "complete"
    /\ pc' = [pc EXCEPT ![t] = "returned"]
    /\ UNCHANGED inits

\* A thread that waited in call_once returns once the Once is complete.
call_once_wakes(t) ==
    /\ pc[t] = "waiting"
    /\ once = "complete"
    /\ pc' = [pc EXCEPT ![t] = "returned"]
    /\ UNCHANGED <<once, inits>>

\* The caller goes on, and may call init_late_bindings again.
caller_continues(t) ==
    /\ pc[t] = "returned"
    /\ pc' = [pc EXCEPT ![t] = "idle"]
    /\ UNCHANGED <<once, inits>>

InitLateBindings ==
    \E t \in Threads :
        init_late_bindings(t) /\ UNCHANGED <<rvars, dvars, ret, args, artifacts>>

CallOnce ==
    \E t \in Threads :
        call_once(t) /\ UNCHANGED <<rvars, dvars, ret, args, artifacts>>

InitValidationImpl ==
    \E t \in Threads :
        init_validation_impl(t) /\ UNCHANGED <<rvars, dvars, ret, args, artifacts>>

CallOnceCompletes ==
    \E t \in Threads :
        call_once_completes(t) /\ UNCHANGED <<rvars, dvars, ret, args, artifacts>>

CallOnceWakes ==
    \E t \in Threads :
        call_once_wakes(t) /\ UNCHANGED <<rvars, dvars, ret, args, artifacts>>

CallerContinues ==
    \E t \in Threads :
        caller_continues(t) /\ UNCHANGED <<rvars, dvars, ret, args, artifacts>>

NextLate ==
    \/ InitLateBindings
    \/ CallOnce
    \/ InitValidationImpl
    \/ CallOnceCompletes
    \/ CallOnceWakes
    \/ CallerContinues

SpecLate == Init /\ [][NextLate]_vars

\* ------------------------------------------------------------------ next

Next ==
    \/ NewFromOwner
    \/ NewFromOwnerAndDeferred
    \/ RegisterAction
    \/ CreateTransitiveSet
    \/ RegisterDynamicOutput
    \/ Finalize
    \/ FinalizeClosure
    \/ NewEmpty

Spec == Init /\ [][Next]_vars

\* The registries, and the outputs declared through them.
NextDeclare ==
    \/ NewFromOwner
    \/ NewFromOwnerAndDeferred
    \/ DeclareOutput

SpecDeclare == Init /\ [][NextDeclare]_vars

\* The evaluations, and the readers of the snapshots they have produced.
NextRead ==
    \/ Next
    \/ LookupTransitiveSet
    \/ LookupAction
    \/ LookupLambda
    \/ IterActions
    \/ IterDynamicLambdas

SpecRead == Init /\ [][NextRead]_vars

\* ------------------------------------------------------------------ claims

\* The registries whose storage is still being accumulated into.
Open == {r \in Registries : phase[r] = "open"}

\* The last call was a successful register_transitive_set on r.
Registered(r) ==
    /\ ret.op = "register_transitive_set"
    /\ ret.res.ok
    /\ ret.res.val.key.holder = self_key[r]

\* A step in which register_transitive_set succeeded on r.
RegisteredStep(r) ==
    /\ r \in Open
    /\ ret'.op = "register_transitive_set"
    /\ ret'.res.ok
    /\ ret'.res.val.key.holder = self_key[r]

\* C1: the k-th successful register_transitive_set on a storage (k from 0) is
\* issued index k: each successful call is issued the index equal to the
\* number of sets registered before it and adds one entry under it, so the
\* entries in registration order carry the indices 0, 1, ..., N-1.
C1_IndexContiguity ==
    /\ [](\A r \in Registries :
            \A i \in DOMAIN storage[r].transitive_sets :
                /\ storage[r].transitive_sets[i].k.index = i - 1
                /\ storage[r].transitive_sets[i].v.key = storage[r].transitive_sets[i].k)
    /\ [][\A r \in Registries :
            RegisteredStep(r) =>
                /\ ret'.res.val.key.index = Len(storage[r].transitive_sets)
                /\ storage'[r].transitive_sets =
                       Append(storage[r].transitive_sets,
                              [k |-> ret'.res.val.key, v |-> ret'.res.val])]_vars

\* Two sets have been registered on one storage, the second just now.
C1_Witness ==
    \E r \in Open :
        /\ Registered(r)
        /\ Len(storage[r].transitive_sets) = 2
        /\ ret.res.val.key.index = 1

\* The module registry r's storage has been committed to.
ModuleOf(r) == CHOOSE m \in Modules : slot[m] = Some(r)

\* A step in which the closure of r's finalize ran.
ClosureStep(r) ==
    /\ phase[r] = "committed"
    /\ phase'[r] # "committed"

\* The frozen form a value is expected to take.
Frozen(v) == [frozen |-> v]
FrozenOpt(o) == IF o.some THEN Some(Frozen(o.v)) ELSE None

AllLambdaKeys == UNION {LambdaKeys(h) : h \in HolderKeys}
AllSetKeys == [holder : HolderKeys, index : 0..MaxEntries]

\* C2: round trip through freeze. When the closure of finalize succeeds, the
\* three frozen maps have the key sets of the mutable maps, and a lookup by
\* a key through the fetcher (or the snapshot, for transitive sets) gives
\* the frozen form of the value the mutable map held under that key, the
\* two components of an action's data each present or absent as stored.
C2_RoundTrip ==
    [][\A r \in Registries :
          (ClosureStep(r) /\ phase'[r] = "done") =>
              LET st == storage[r]
                  fm == frozen'[ModuleOf(r)]
                  f == AnalysisValueFetcher(fm)
                  fs == fm.v.analysis_value_storage.v
                  values == recorded'[r].v
              IN  /\ fm.some /\ fm.v.analysis_value_storage.some
                  /\ values.analysis_storage = Some(fs)
                  /\ Keys(fs.action_data) = Keys(st.action_data)
                  /\ Keys(fs.transitive_sets) = Keys(st.transitive_sets)
                  /\ Keys(fs.lambda_params) = Keys(st.lambda_params)
                  /\ \A id \in Keys(st.action_data) :
                        LET d == Get(st.action_data, id).v
                        IN  get_action_data(f, id)
                                = Ok(<<FrozenOpt(d[1]), FrozenOpt(d[2])>>)
                  /\ \A key \in Keys(st.transitive_sets) :
                        RecordedAnalysisValues_lookup_transitive_set(values, key)
                            = Some(Frozen(Get(st.transitive_sets, key).v))
                  /\ \A key \in Keys(st.lambda_params) :
                        get_lambda_params(f, key)
                            = Ok(Some(Frozen(Get(st.lambda_params, key).v)))]_vars

\* A storage holding an action with a value and no handler, and a transitive
\* set, has been frozen, and the action's data is fetched as (Some, None).
C2_Witness ==
    \E r \in Registries, id \in ActionKeys :
        /\ phase[r] = "done"
        /\ ret.op = "closure"
        /\ recorded[r].v.analysis_storage.some
        /\ recorded[r].v.analysis_storage.v.transitive_sets # <<>>
        /\ get_action_data(AnalysisValueFetcher(frozen[ModuleOf(r)]), id)
               = Ok(<<Some(Frozen("v1")), None>>)

\* Whether a stored value of the storage cannot be frozen.
BadActionData(d) ==
    \/ d[1].some /\ d[1].v \in Unfreezable
    \/ d[2].some /\ d[2].v \in Unfreezable
HasBad(st) ==
    \/ \E i \in DOMAIN st.action_data : BadActionData(st.action_data[i].v)
    \/ \E i \in DOMAIN st.transitive_sets :
           st.transitive_sets[i].v.payload \in Unfreezable
    \/ \E i \in DOMAIN st.lambda_params : st.lambda_params[i].v \in Unfreezable

\* The stored values in the order action data (value, then handler), then
\* transitive sets, then lambda params, each map in insertion order; each
\* with what a failure to freeze it quotes.
StoredInOrder(st) ==
    LET comps(d) == (IF d[1].some THEN <<[bad |-> d[1].v \in Unfreezable,
                                          about |-> [value |-> d[1].v]]>> ELSE <<>>)
                    \o (IF d[2].some THEN <<[bad |-> d[2].v \in Unfreezable,
                                             about |-> [value |-> d[2].v]]>> ELSE <<>>)
        ad[i \in 0..Len(st.action_data)] ==
            IF i = 0 THEN <<>> ELSE ad[i - 1] \o comps(st.action_data[i].v)
    IN  ad[Len(st.action_data)]
        \o [i \in DOMAIN st.transitive_sets |->
               [bad |-> st.transitive_sets[i].v.payload \in Unfreezable,
                about |-> st.transitive_sets[i].v]]
        \o [i \in DOMAIN st.lambda_params |->
               [bad |-> st.lambda_params[i].v \in Unfreezable,
                about |-> [value |-> st.lambda_params[i].v]]]

FirstFailure(st) ==
    LET all == StoredInOrder(st)
        i == CHOOSE j \in DOMAIN all :
                 all[j].bad /\ \A l \in 1..(j - 1) : ~all[l].bad
    IN  ErrAbout("freeze", "value cannot be frozen", all[i].about)

\* C3: freeze is all-or-nothing. When a stored value cannot be frozen, freeze
\* returns the failure of the first such value, in the order action data,
\* transitive sets, lambda params and insertion order within each; and the
\* closure that runs the freeze then fails, leaving no frozen module, no
\* frozen storage and no snapshot.
C3_AllOrNothing ==
    /\ [](\A r \in Registries :
            HasBad(storage[r]) => freeze(storage[r]) = FirstFailure(storage[r]))
    /\ [][\A r \in Registries :
            (ClosureStep(r) /\ HasBad(storage[r])) =>
                /\ phase'[r] = "failed"
                /\ ret'.res \in {FirstFailure(storage[r]), Err("external", "env.freeze")}
                /\ frozen'[ModuleOf(r)] = Dropped
                /\ ~recorded'[r].some]_vars

\* The closure has failed on a storage with a value that cannot be frozen,
\* and returned the failure to freeze it.
C3_Witness ==
    \E r \in Registries :
        /\ phase[r] = "failed"
        /\ ret.op = "closure"
        /\ ret.res.tag = "freeze"
        /\ frozen[ModuleOf(r)] = Dropped
        /\ ~recorded[r].some

\* Registry r's storage has been handed to commit: to write_to_module by
\* finalize, whether or not the module took it.
Handed(r) ==
    \/ phase[r] \in {"committed", "consumed", "done", "failed"}
    \/ \E m \in Modules : slot[m] = Some(r)

\* C4: freeze is one-shot. Once a storage has been handed to commit, no
\* registration changes it and it never returns to accumulation; the only
\* step that touches it is the one freeze that consumes it, after which
\* neither the registry, its snapshot nor the frozen module changes again.
C4_OneShot ==
    [][\A r \in Registries :
          Handed(r) =>
              /\ Handed(r)'
              /\ phase'[r] \notin {"none", "open"}
              /\ storage'[r] # storage[r] => ClosureStep(r)
              /\ phase'[r] # phase[r] => ClosureStep(r)
              /\ recorded'[r] # recorded[r] => ClosureStep(r)
              /\ \A m \in Modules :
                    (slot[m] = Some(r) /\ frozen'[m] # frozen[m]) =>
                        (ClosureStep(r) /\ frozen[m] = None)]_vars

\* A non-empty storage has been committed and frozen, and a later call was
\* made on another registry.
C4_Witness ==
    \E r \in Registries :
        /\ phase[r] = "done"
        /\ recorded[r].v.analysis_storage.some
        /\ Size(recorded[r].v.analysis_storage.v) > 0
        /\ ret.op \notin {"closure", "finalize"}

\* A step in which finalize was called on r.
FinalizeStep(r) ==
    /\ phase[r] = "open"
    /\ phase'[r] # "open"

Fetchers ==
    {AnalysisValueFetcher_default}
    \cup {AnalysisValueFetcher(frozen[m]) : m \in {x \in Modules : frozen[x].some}}

\* The frozen storage fetcher f reads: None when it has no frozen module.
StorageOf(f) ==
    IF f.frozen_module.some THEN f.frozen_module.v.analysis_value_storage ELSE None

\* C6: absence is uniform and not a failure. get_action_data answers
\* (None, None) and get_lambda_params answers None, without error, both for
\* a fetcher with no frozen module and for a frozen storage that lacks the
\* key, the two answers being the same; and a snapshot's transitive-set
\* lookup answers None both without frozen storage and for a key it lacks.
C6_UniformAbsence ==
    /\ \A f \in Fetchers :
          /\ \A id \in ActionKeys :
                (~StorageOf(f).some \/ id \notin Keys(StorageOf(f).v.action_data)) =>
                    /\ get_action_data(f, id) = Ok(<<None, None>>)
                    /\ get_action_data(f, id)
                           = get_action_data(AnalysisValueFetcher_default, id)
          /\ \A key \in AllLambdaKeys :
                (~StorageOf(f).some \/ key \notin Keys(StorageOf(f).v.lambda_params)) =>
                    /\ get_lambda_params(f, key) = Ok(None)
                    /\ get_lambda_params(f, key)
                           = get_lambda_params(AnalysisValueFetcher_default, key)
    /\ \A r \in Resolved :
          \A key \in AllSetKeys :
              LET st == recorded[r].v.analysis_storage
              IN  (~st.some \/ key \notin Keys(st.v.transitive_sets)) =>
                      RecordedAnalysisValues_lookup_transitive_set(recorded[r].v, key) = None

\* A frozen storage holds data for one action key and none for another, and
\* the fetcher over it answers (None, None) for the other as the default
\* fetcher does; and a snapshot without frozen storage exists.
C6_Witness ==
    /\ \E f \in Fetchers, id, other \in ActionKeys :
          /\ StorageOf(f).some
          /\ id \in Keys(StorageOf(f).v.action_data)
          /\ other \notin Keys(StorageOf(f).v.action_data)
          /\ get_action_data(f, other) = Ok(<<None, None>>)
    /\ \E r \in Resolved : ~recorded[r].v.analysis_storage.some

\* C7: register_action, once the action registry has issued the key, does
\* not fail and is last-write-wins: after it the storage holds exactly one
\* entry for the key, carrying the (value, handler) pair of this call, and
\* the entries of all other keys, and their order, are unchanged.
C7_LastWriteWins ==
    [][\A r \in Open, id \in ActionKeys,
          v \in {Some(x) : x \in AssocValues} \cup {None},
          e \in {Some(x) : x \in ErrorHandlers} \cup {None} :
          (ret'.op = "register_action" /\ register_action(r, Ok(id), v, e)) =>
              LET old == storage[r].action_data
                  new == storage'[r].action_data
              IN  /\ ret'.res.ok
                  /\ Cardinality({i \in DOMAIN new : new[i].k = id}) = 1
                  /\ Get(new, id) = Some(<<v, e>>)
                  /\ Keys(new) = Keys(old) \cup {id}
                  /\ \A i \in DOMAIN old : old[i].k # id => new[i] = old[i]
                  /\ \A i \in DOMAIN old : new[i].k = old[i].k]_vars

\* An action key that already had an entry has been written again, next to
\* the entry of another key.
C7_Witness ==
    \E r \in Open :
        /\ ret.op = "register_action"
        /\ ret.res.ok
        /\ ret.replaced
        /\ Len(storage[r].action_data) = 2

\* The frozen transitive sets of the snapshot of r, in registration order.
SetsOf(r) ==
    IF recorded[r].v.analysis_storage.some
        THEN recorded[r].v.analysis_storage.v.transitive_sets
        ELSE <<>>

InternalError(res) == ~res.ok /\ res.tag = "internal"

C10_MissingTransitiveSet ==
    \A h \in Resolved :
        \A key \in AllSetKeys :
            LET res == DeferredHolder_lookup_transitive_set(HolderOf(h), key)
            IN  IF \E i \in DOMAIN SetsOf(h) : SetsOf(h)[i].k = key
                    THEN \E i \in DOMAIN SetsOf(h) :
                            SetsOf(h)[i].k = key /\ res = Ok(SetsOf(h)[i].v)
                    ELSE res = ErrAbout("internal", "Missing transitive set", key)

\* One holder resolved to an empty snapshot, for which a lookup fails, and
\* another to a snapshot that holds the key looked up.
C10_Witness ==
    /\ \E h \in Resolved :
          /\ recorded[h].v = new_empty
          /\ ~DeferredHolder_lookup_transitive_set(
                  HolderOf(h), TransitiveSetKey_new(self_key[h], 0)).ok
    /\ \E h \in Resolved :
          DeferredHolder_lookup_transitive_set(
              HolderOf(h), TransitiveSetKey_new(self_key[h], 0)).ok

\* The dynamic_lambdas table of the snapshot of h.
LambdasOf(h) == recorded[h].v.dynamic_lambdas

\* C11: lookup_lambda returns the DynamicLambda recorded under the key when
\* the snapshot's dynamic_lambdas table holds it, and otherwise fails with
\* the internal error "missing lambda" naming the key; it never answers an
\* absent key with a value.
C11_MissingLambda ==
    \A h \in Resolved :
        \A key \in AllLambdaKeys :
            LET res == DeferredHolder_lookup_lambda(HolderOf(h), key)
            IN  /\ res = RecordedAnalysisValues_lookup_lambda(recorded[h].v, key)
                /\ IF \E i \in DOMAIN LambdasOf(h) : LambdasOf(h)[i].k = key
                      THEN \E i \in DOMAIN LambdasOf(h) :
                              LambdasOf(h)[i].k = key /\ res = Ok(LambdasOf(h)[i].v)
                      ELSE /\ ~res.ok
                           /\ res = ErrAbout("internal", "missing lambda", key)

\* One snapshot holds a lambda, found under its key, and a snapshot that
\* lacks a key answers it with the error that names it.
C11_Witness ==
    /\ \E h \in Resolved, key \in AllLambdaKeys :
          /\ LambdasOf(h) # <<>>
          /\ DeferredHolder_lookup_lambda(HolderOf(h), key).ok
    /\ \E h \in Resolved, key \in AllLambdaKeys :
          DeferredHolder_lookup_lambda(HolderOf(h), key)
              = ErrAbout("internal", "missing lambda", key)

\* The recorded-actions table of the snapshot of h.
ActionsOf(h) == recorded[h].v.actions

\* C12: lookup_action does no chasing. DeferredHolder::lookup_action answers
\* with exactly what the snapshot's recorded-actions table holds for the
\* key; an entry Deferred(further_key) is returned as it is, not replaced by
\* what the table holds for further_key.
C12_NoChasing ==
    \A h \in Resolved :
        \A key \in ActionKeys :
            LET res == DeferredHolder_lookup_action(HolderOf(h), key)
            IN  /\ res = RecordedActions_lookup(ActionsOf(h), key)
                /\ \A i \in DOMAIN ActionsOf(h) :
                      ActionsOf(h)[i].k = key => res = Ok(ActionsOf(h)[i].v)

\* A snapshot records one action as Deferred to a further key whose own
\* entry is the action itself: the lookup answers Deferred(further key),
\* where looking the further key up would give the action.
C12_Witness ==
    \E h \in Resolved, key \in ActionKeys :
        /\ DeferredHolder_lookup_action(HolderOf(h), key)
               = Ok(ActionLookup_Deferred(Further(key)))
        /\ DeferredHolder_lookup_action(HolderOf(h), Further(key))
               = Ok(ActionLookup_Action(Further(key)))

\* The positions of the log that hold an event of kind ev about key.
EventsOf(ev, key) == {i \in DOMAIN log : log[i].ev = ev /\ log[i].key = key}

\* The evaluator and the DeferredHolder variant that belong to a key.
EvaluatorFor(key) ==
    IF key.kind = "DynamicLambda" THEN "compute_dynamic_lambda"
    ELSE IF key.base \in TargetLabels THEN "get_analysis_result"
    ELSE IF key.base \in BxlLabels THEN "eval_bxl"
    ELSE "EVAL_ANON_TARGET"
VariantFor(key) ==
    IF key.kind = "DynamicLambda" THEN "DynamicLambda"
    ELSE IF key.base \in BxlLabels THEN "Bxl"
    ELSE "Analysis"

\* C13: resolve dispatches on the kind of the key and calls only the
\* matching evaluator. A target label is answered by the rule analysis, a
\* bxl label by the bxl evaluator, an anonymous target by the anonymous
\* target evaluator, a lambda key by the nested-computation evaluator; the
\* holder returned is Analysis, Bxl, Analysis, DynamicLambda respectively
\* and wraps that evaluator's result for that key; and a rule-analysis
\* result that is not compatible with the execution platform fails the
\* resolution.
C13_Dispatch ==
    \A i \in DOMAIN log :
        /\ log[i].ev = "call" => log[i].evaluator = EvaluatorFor(log[i].key)
        /\ (log[i].ev = "done" /\ log[i].res.ok) =>
               log[i].res.val =
                   [kind |-> VariantFor(log[i].key),
                    result |-> [by |-> EvaluatorFor(log[i].key), of |-> log[i].key]]
        /\ (log[i].ev = "answer" /\ log[i].answer = "incompatible") =>
               /\ log[i].key.kind = "Base" /\ log[i].key.base \in TargetLabels
               /\ i + 1 \in DOMAIN log
               /\ log[i + 1].ev = "done"
               /\ log[i + 1].key = log[i].key
               /\ ~log[i + 1].res.ok

\* A lambda owned by a bxl label has been resolved: the bxl evaluator gave
\* a Bxl holder and the nested evaluator a DynamicLambda holder; and before
\* it a target label whose analysis was asked for.
C13_Witness ==
    /\ stack = <<>>
    /\ out.some /\ out.v.ok /\ out.v.val.kind = "DynamicLambda"
    /\ \E i \in DOMAIN log :
          /\ log[i].ev = "done" /\ log[i].res.ok
          /\ log[i].res.val.kind = "Bxl"
    /\ \E i \in DOMAIN served :
          served[i].kind = "Base" /\ served[i].base \in TargetLabels

\* The evaluator of the key can be called: it is not late-bound, or its
\* late binding has been initialised.
CanCall(key) ==
    \/ key.kind = "DynamicLambda"
    \/ key.base \in TargetLabels
    \/ key.base \in BxlLabels /\ "BXL_CALCULATION_IMPL" \in late
    \/ key.base \in AnonTargets /\ "EVAL_ANON_TARGET" \in late

\* What the evaluator's answer makes of the call that awaited it.
Failing(answer) == answer \in {"error", "incompatible"}

\* C14 as stated: every call of resolve that has returned made exactly one
\* call into the evaluator of its key.
C14_ExactlyOneCall ==
    \A i \in DOMAIN log :
        log[i].ev = "done" => Cardinality(EventsOf("call", log[i].key)) = 1

\* C14, amended: a call of resolve makes at most one call into the
\* evaluator of its key: exactly one when the evaluator can be called, and
\* none when its late binding is not initialised, in which case resolve
\* fails with that internal error. It never starts over: a failing answer
\* is returned as the failure of the resolve, with no holder, and the
\* requester receives what the outermost call returned. A key resolved
\* before is dispatched again like any other.
C14_OneCallNoRetry ==
    /\ \A key \in ResolveKeys :
          /\ Cardinality(EventsOf("call", key)) <= 1
          /\ Cardinality(EventsOf("resolve", key)) <= 1
          /\ Cardinality(EventsOf("done", key)) <= 1
    /\ \A i \in DOMAIN log :
          /\ log[i].ev = "done" =>
                /\ Cardinality(EventsOf("call", log[i].key))
                       = (IF CanCall(log[i].key) THEN 1 ELSE 0)
                /\ ~CanCall(log[i].key) =>
                       (~log[i].res.ok /\ log[i].res.tag = "internal")
          /\ (log[i].ev = "answer" /\ Failing(log[i].answer)) =>
                /\ log[i + 1].ev = "done"
                /\ log[i + 1].key = log[i].key
                /\ ~log[i + 1].res.ok
    /\ (stack = <<>> /\ out.some) =>
          /\ log[Len(log)].ev = "done"
          /\ log[Len(log)].res = out.v
          /\ log[Len(log)].key = log[1].key

\* The same key has been resolved twice, and the second resolution called
\* the evaluator, which failed, and returned the failure.
C14_Witness ==
    /\ stack = <<>>
    /\ Len(served) = 2
    /\ served[1] = served[2]
    /\ Cardinality(EventsOf("call", served[2])) = 1
    /\ out.some /\ ~out.v.ok /\ out.v.tag = "external"

RECURSIVE Depth(_)
Depth(key) == IF key.kind = "Base" THEN 0 ELSE 1 + Depth(key.owner)

\* The resolutions the log holds.
Resolutions == {i \in DOMAIN log : log[i].ev = "resolve"}

RECURSIVE Chain(_)
Chain(key) ==
    IF key.kind = "Base" THEN <<key.base>>
    ELSE Append(Chain(key.owner), key.action)

\* C17: owner() is total and returns the base key at the root of the
\* chain: b for Base(b), and for a lambda key of any depth the base key
\* its chain of owners ends in, whatever the local discriminators on the
\* way.
C17_OwnerIsRoot ==
    ret.op = "owner" =>
        /\ ret.res \in AllBaseKeys
        /\ ret.res = Chain(args[1].key)[1]
        /\ args[1].key.kind = "Base" => ret.res = args[1].key.base
        /\ \A k \in AllKeys :
              (Len(Chain(k)) = Len(Chain(args[1].key))
               /\ Chain(k)[1] = Chain(args[1].key)[1]) => owner(k) = ret.res

\* owner() has been applied to a lambda of a lambda and gave the base key.
C17_Witness ==
    /\ ret.op = "owner"
    /\ Len(Chain(args[1].key)) = 3
    /\ args[1].key.owner.owner = Base(ret.res)

\* C18: action_key() of a Base key is the empty string whatever the base
\* key, and action_key() of a lambda key is the action-key string of its
\* lambda key.
C18_ActionKey ==
    ret.op = "action_key" =>
        /\ args[1].key.kind = "Base" => ret.res = <<>>
        /\ args[1].key.kind = "DynamicLambda" =>
               /\ ret.res = DynamicLambdaResultsKey_action_key(args[1].key)
               /\ ret.res # <<>>

\* action_key() has been applied to the Base key of a bxl label and gave
\* the empty string.
C18_Witness ==
    /\ ret.op = "action_key"
    /\ args[1].key.kind = "Base"
    /\ args[1].key.base \in BxlLabels
    /\ ret.res = <<>>

\* Two chains differ in exactly one link.
OneLinkApart(c, d) ==
    /\ Len(c) = Len(d)
    /\ Cardinality({i \in DOMAIN c : c[i] # d[i]}) = 1

\* C19: key equality is structural over the whole chain: two keys are
\* equal iff they have the same base key and the same local discriminators
\* in the same order; keys that differ in one link are unequal, a Base
\* key never equals a lambda key, and whether two lambda keys share an Arc
\* makes no difference.
C19_StructuralEq ==
    ret.op = "eq" =>
        /\ ret.res = (Chain(args[1].key) = Chain(args[2].key))
        /\ OneLinkApart(Chain(args[1].key), Chain(args[2].key)) => ~ret.res
        /\ args[1].key.kind # args[2].key.kind => ~ret.res
        /\ \A p, q \in Arcs :
              (args[1].key.kind = "DynamicLambda"
               /\ args[2].key.kind = "DynamicLambda") =>
                  PartialEq_eq(KeyValue(args[1].key, p), KeyValue(args[2].key, q))
                      = ret.res

\* Two lambdas of lambdas held in different Arcs, with the same chain,
\* have been compared and found equal.
C19_Witness ==
    /\ ret.op = "eq"
    /\ ret.res
    /\ Len(Chain(args[1].key)) = 3
    /\ args[1].arc # args[2].arc

\* The calls that read a snapshot.
Lookups == {"lookup_transitive_set", "lookup_action", "lookup_lambda",
            "iter_actions", "iter_dynamic_lambdas"}

\* What a call of a reader answers on a snapshot.
Answer(call, values, key) ==
    CASE call = "lookup_transitive_set" ->
             RecordedAnalysisValues_lookup_transitive_set(values, key)
      [] call = "lookup_action" -> RecordedAnalysisValues_lookup_action(values, key)
      [] call = "lookup_lambda" -> RecordedAnalysisValues_lookup_lambda(values, key)
      [] call = "iter_actions" -> RecordedAnalysisValues_iter_actions(values)
      [] call = "iter_dynamic_lambdas" ->
             RecordedAnalysisValues_iter_dynamic_lambdas(values)

\* C21: a snapshot is immutable after creation. No step, of a reader or of
\* an evaluation, changes a RecordedAnalysisValues that exists; a lookup
\* answers what the snapshot held before it and holds after it; and a
\* lookup repeated with the same key, by the same reader or by another,
\* gives the same result.
C21_SnapshotImmutable ==
    [][/\ \A h \in Registries : recorded[h].some => recorded'[h] = recorded[h]
       /\ ret'.op \in Lookups =>
             /\ ret'.res = Answer(ret'.op, recorded[ret'.on].v, ret'.key)
             /\ ret'.res = Answer(ret'.op, recorded'[ret'.on].v, ret'.key)
             /\ (ret.op = ret'.op /\ ret.on = ret'.on /\ ret.key = ret'.key) =>
                    ret'.res = ret.res]_vars

\* The second reader has looked up and found a lambda in a snapshot that
\* also holds a frozen transitive set.
C21_Witness ==
    /\ ret.op = "lookup_lambda"
    /\ ret.by = "t2"
    /\ ret.res.ok
    /\ recorded[ret.on].v.analysis_storage.some
    /\ recorded[ret.on].v.analysis_storage.v.transitive_sets # <<>>

\* The last call was a register_transitive_set on r whose constructor failed.
Refused(r) ==
    /\ ret.op = "register_transitive_set"
    /\ ~ret.res.ok
    /\ ret.offered.holder = self_key[r]

\* A step in which register_transitive_set was called on r and its
\* constructor failed.
RefusedStep(r) ==
    /\ r \in Open
    /\ ret'.op = "register_transitive_set"
    /\ ~ret'.res.ok
    /\ ret'.offered.holder = self_key[r]

\* C23: when the constructor passed to register_transitive_set fails, the
\* call returns the constructor's error and the storage is unchanged: the
\* failed call was offered the index equal to the number of sets held, that
\* index is still the one the storage issues next, and a registration that
\* follows is issued the index the failed one was offered.
C23_FailedRegistration ==
    /\ [][\A r \in Registries :
            RefusedStep(r) =>
                /\ ret'.res = func(FuncFails, ret'.offered)
                /\ storage' = storage
                /\ ret'.offered.index = Len(storage[r].transitive_sets)]_vars
    /\ [](\A r \in Open :
            Refused(r) => ret.offered.index = Len(storage[r].transitive_sets))
    /\ [][\A r \in Open :
            (Refused(r) /\ RegisteredStep(r)) =>
                /\ ret'.res.val.key = ret.offered
                /\ ret'.offered = ret.offered]_vars

\* A constructor has failed on a storage that already held a set: it was
\* offered index 1, and the storage still holds one set.
C23_Witness ==
    \E r \in Open :
        /\ Refused(r)
        /\ ret.offered.index = 1
        /\ Len(storage[r].transitive_sets) = 1

\* The fetcher holds a frozen module whose storage slot was never written.
Uncommitted(f) ==
    f.frozen_module.some /\ ~f.frozen_module.v.analysis_value_storage.some

\* The not-found answer of a call of the fetcher.
NotFound(call) ==
    IF call = "get_action_data" THEN Ok(<<None, None>>) ELSE Ok(None)

IsPrefix(s, t) == Len(s) <= Len(t) /\ s = SubSeq(t, 1, Len(s))

\* C25: finalize runs its steps in a fixed order and stops at the first
\* failure. The storage is committed first, and a registry whose commit
\* failed never gets a closure to run and never a snapshot. The closure
\* freezes the module, binds the actions, the artifact groups and the
\* dynamic lambdas, and then builds the RecordedAnalysisValues: the steps it
\* ran are a prefix of that order, it fails with the failure of the last
\* step it ran, and it produces a snapshot only when all five have run.
C25_FinalizeOrder ==
    /\ [](\A r \in Registries :
            /\ phase[r] = "committed" => \E m \in Modules : slot[m] = Some(r)
            /\ phase[r] \in {"consumed", "failed"} => ~recorded[r].some)
    /\ [][\A r \in Registries :
            /\ (FinalizeStep(r) /\ ~ret'.res.ok) =>
                   /\ phase'[r] = "consumed"
                   /\ slot' = slot
                   /\ frozen' = frozen
                   /\ recorded' = recorded
            /\ phase[r] = "consumed" => phase'[r] = "consumed"
            /\ ClosureStep(r) =>
                   LET ran == ret'.ran
                       last == ran[Len(ran)]
                   IN  /\ ran # <<>>
                       /\ IsPrefix(ran, ClosureOrder)
                       /\ ret'.res.ok <=> ran = ClosureOrder
                       /\ ret'.res.ok <=> recorded'[r].some
                       /\ ret'.res.ok <=> frozen'[ModuleOf(r)].some
                       /\ ~ret'.res.ok =>
                              /\ recorded'[r] = None
                              /\ \/ ret'.res = Err("external", last)
                                 \/ last = "env.freeze" /\ ret'.res.tag = "freeze"]_vars

\* The closure has failed while binding the dynamic lambdas, after the
\* module froze and the actions and artifact groups were bound, and left no
\* snapshot.
C25_Witness ==
    \E r \in Registries :
        /\ phase[r] = "failed"
        /\ ret.op = "closure"
        /\ ret.res = Err("external", "dynamic.ensure_bound")
        /\ Len(ret.ran) = 4
        /\ ~recorded[r].some

\* C26: register_action stores action data only for actions the action
\* registry accepted. When the registry's register fails, register_action
\* returns that error and no storage changes. When it succeeds, the only
\* thing that changes is the action_data of that registry's storage, where
\* the entry under the key the registry returned now holds the given
\* (associated value, error handler) pair: one entry is written, and every
\* other entry is as it was.
C26_OnlyAccepted ==
    [][\A r \in Open,
          id \in {Ok(a) : a \in ActionKeys} \cup {RegistryRejects},
          v \in {Some(x) : x \in AssocValues} \cup {None},
          e \in {Some(x) : x \in ErrorHandlers} \cup {None} :
          (ret'.op = "register_action" /\ register_action(r, id, v, e)) =>
              LET old == storage[r].action_data
                  new == storage'[r].action_data
              IN  IF ~id.ok
                      THEN /\ ret'.res = id
                           /\ storage' = storage
                      ELSE /\ ret'.res = Ok("unit")
                           /\ Get(new, id.val) = Some(<<v, e>>)
                           /\ Len(new) = IF HasKey(old, id.val)
                                             THEN Len(old) ELSE Len(old) + 1
                           /\ Cardinality({i \in DOMAIN new :
                                             i \notin DOMAIN old \/ new[i] # old[i]}) <= 1
                           /\ \A i \in DOMAIN old : old[i].k # id.val => new[i] = old[i]
                           /\ storage'[r].transitive_sets = storage[r].transitive_sets
                           /\ storage'[r].lambda_params = storage[r].lambda_params
                           /\ \A r2 \in Registries \ {r} : storage'[r2] = storage[r2]]_vars

\* The action registry has refused an action on a registry whose storage
\* holds the data of an action registered before, and that is all it holds.
C26_Witness ==
    \E r \in Open :
        /\ ret.op = "register_action"
        /\ ret.res = RegistryRejects
        /\ Len(storage[r].action_data) = 1
        /\ storage[r].action_data[1].v # <<None, None>>

\* The index the storage of r issues to the next transitive set.
NextIndex(st) == Len(st.transitive_sets)

\* C27: the three mappings of the mutable storage are independent. A
\* register_action (set_action_data) leaves transitive_sets and
\* lambda_params as they were, a register_dynamic_output (set_lambda_params)
\* leaves action_data and transitive_sets as they were, and neither changes
\* the index the next transitive set is issued; a register_transitive_set
\* leaves action_data and lambda_params as they were and advances that
\* index by one when it succeeds, and not at all when it fails.
C27_IndependentMaps ==
    [][\A r \in Registries :
          LET old == storage[r]
              new == storage'[r]
          IN  /\ ret'.op = "register_action" =>
                     /\ new.transitive_sets = old.transitive_sets
                     /\ new.lambda_params = old.lambda_params
                     /\ NextIndex(new) = NextIndex(old)
              /\ ret'.op = "register_dynamic_output" =>
                     /\ new.action_data = old.action_data
                     /\ new.transitive_sets = old.transitive_sets
                     /\ NextIndex(new) = NextIndex(old)
              /\ ret'.op = "register_transitive_set" =>
                     /\ new.action_data = old.action_data
                     /\ new.lambda_params = old.lambda_params
                     /\ NextIndex(new) =
                            IF ret'.res.ok /\ ret'.offered.holder = self_key[r]
                                           /\ r \in Open
                                THEN NextIndex(old) + 1
                                ELSE NextIndex(old)]_vars

\* The parameters of a lambda have been stored in a storage that holds a
\* transitive set, which is still its only one.
C27_Witness ==
    \E r \in Open :
        /\ ret.op = "register_dynamic_output"
        /\ ret.res.ok
        /\ Len(storage[r].lambda_params) = 1
        /\ Len(storage[r].transitive_sets) = 1
        /\ storage[r].transitive_sets[1].k.index = 0

\* A step in which registry r was constructed.
ConstructedStep(r) ==
    /\ phase[r] = "none"
    /\ phase'[r] = "open"

\* C28: every transitive-set key issued through an AnalysisRegistry carries
\* that registry's self_key as its holder. A registry made by
\* new_from_owner(owner) has self_key Base(owner), one made by
\* new_from_owner_and_deferred has the self_key it was given, the self_key
\* never changes afterwards, and in every state all keys of the registry's
\* transitive_sets map, and the keys embedded in the sets, have holder
\* equal to self_key.
C28_HolderIsSelfKey ==
    /\ [](\A r \in Registries :
            \A i \in DOMAIN storage[r].transitive_sets :
                /\ storage[r].transitive_sets[i].k.holder = self_key[r]
                /\ storage[r].transitive_sets[i].v.key.holder = self_key[r])
    /\ [][\A r \in Registries :
            /\ ConstructedStep(r) =>
                   /\ ret'.res = Ok(self_key'[r])
                   /\ self_key'[r] = KeyOf(r)
                   /\ KeyOf(r).kind = "Base" => self_key'[r] = Base(owner(KeyOf(r)))
            /\ phase[r] # "none" => self_key'[r] = self_key[r]
            /\ (ret'.op = "register_transitive_set"
                /\ storage'[r].transitive_sets # storage[r].transitive_sets) =>
                   /\ ret'.offered.holder = self_key[r]
                   /\ ret'.res.val.key.holder = self_key[r]]_vars

\* The registry of a dynamic lambda, made with the lambda's key as its
\* self_key, has issued a transitive-set key, and so has the registry of
\* the base key that owns it.
C28_Witness ==
    \E r, r2 \in Open :
        /\ self_key[r].kind = "DynamicLambda"
        /\ self_key[r2] = Base(owner(self_key[r]))
        /\ ret.op = "register_transitive_set"
        /\ ret.res.ok
        /\ Len(storage[r].transitive_sets) = 1
        /\ Len(storage[r2].transitive_sets) = 1
        /\ storage[r].transitive_sets[1].k.holder = self_key[r]
        /\ storage[r2].transitive_sets[1].k.holder = self_key[r2]

\* C29: declare_output rejects a filename that is empty or "." with the
\* user-facing error "Can't declare an artifact with an empty filename
\* component" before the action registry is asked, and likewise rejects a
\* filename or a prefix that is not a forward relative path: in each case
\* no artifact is declared and the declared artifacts are as before. No
\* declared artifact has such a filename or prefix.
C29_RejectsBeforeDeclaring ==
    /\ [](\A r \in Registries :
            \A a \in artifacts[r] :
                /\ a.path \notin {"", "."} \cup NotForwardRelative
                /\ a.prefix.some => a.prefix.v \notin NotForwardRelative)
    /\ [][\A r \in Open, prefix \in Prefixes, filename \in Filenames :
            (ret'.op = "declare_output" /\ declare_output(r, prefix, filename)) =>
                /\ filename \in {"", "."} =>
                       /\ ret'.res = Err("user",
                              "Can't declare an artifact with an empty filename component")
                       /\ ~ret'.asked
                       /\ artifacts' = artifacts
                /\ (filename \in NotForwardRelative
                    \/ (prefix.some /\ prefix.v \in NotForwardRelative)) =>
                       /\ ~ret'.res.ok
                       /\ ~ret'.asked
                       /\ artifacts' = artifacts
                /\ artifacts' # artifacts =>
                       /\ ret'.asked
                       /\ ret'.res = Ok([prefix |-> prefix, path |-> filename])
                       /\ artifacts'[r] =
                              artifacts[r] \cup {[prefix |-> prefix, path |-> filename]}]_vars

\* An empty filename has been rejected by a registry that has declared an
\* output before and still has just that one.
C29_Witness ==
    \E r \in Open :
        /\ ret.op = "declare_output"
        /\ ret.res = DeclaredEmptyFileName
        /\ ~ret.asked
        /\ Cardinality(artifacts[r]) = 1

\* C30: init_late_bindings is idempotent under concurrency. However many
\* times and from however many threads it is called, the validation
\* implementation is initialised at most once, by one thread at a time;
\* every call that has returned finds it initialised exactly once and the
\* Once complete; and once that is so it is never initialised again.
C30_InitOnce ==
    /\ [](/\ inits <= 1
          /\ Cardinality({t \in Threads : pc[t] \in {"closure", "closure_done"}}) <= 1
          /\ \A t \in Threads :
                pc[t] = "returned" => (once = "complete" /\ inits = 1)
          /\ once = "complete" => inits = 1)
    /\ [][once = "complete" => (once' = "complete" /\ inits' = inits)]_vars

\* Three threads have called init_late_bindings at the same time: the
\* initialisation has run once, two of the calls have returned, and the
\* third, which found the Once running, has yet to wake.
C30_Witness ==
    /\ inits = 1
    /\ once = "complete"
    /\ Cardinality({t \in Threads : pc[t] = "returned"}) = 2
    /\ Cardinality({t \in Threads : pc[t] = "waiting"}) = 1
====
